---- MODULE Spec2Model ----
(***************************************************************************)
(* Outbound-request resilience subsystem of the clipper backend:           *)
(*   - YouTubeRequestQueue (utils/youtube.ts): add / process / shouldRetry *)
(*   - getCachedVideoInfo / getVideoFormats / downloadVideoStream          *)
(*   - getVideoInfoWithYtDlp / executeYtDlpWithProxy (utils/youtube.ts)    *)
(*   - ProxyManager (utils/proxy-manager.ts)                               *)
(*   - ProxyRefreshService (utils/proxy-refresh.ts)                        *)
(*   - the /info route (routes/youtube.ts)                                 *)
(* Several specifications share the module: SpecQueue runs the request     *)
(* queue and its callers (SpecQueueLive adds that actions terminate and     *)
(* timers fire), SpecRoute the /info route on top of it, SpecPool          *)
(* every operation of the proxy pool under the three rotation policies,    *)
(* SpecCooldown failure reports and the reactivation timers they schedule, *)
(* SpecRotation the same under round-robin with the picks recorded,        *)
(* SpecCreds the pool in two deployments that differ in credentials only,  *)
(* SpecRefresh the refresh service, SpecMaintain the refresh service on a  *)
(* pool filled in bulk whose endpoints fail, SpecInvoke one invocation of  *)
(* the extraction strategies (SpecInvokeLive adds that a subprocess ends), *)
(* SpecFormats getVideoFormats on the formats of an extraction result,     *)
(* SpecAttempt the yt-dlp subprocesses that are bound to a proxy.          *)
(***************************************************************************)
EXTENDS Integers, Sequences, FiniteSets, TLC

VARIABLES
    \* ---- YouTubeRequestQueue ----
    queue,        \* this.queue: sequence of [id, retries, maxRetries]
    processing,   \* this.processing
    workers,      \* live invocations of process() past its guard: [w, pc, item, timer]
    nLoops,       \* number of process() invocations that passed the guard so far
    \* ---- callers of the queue ----
    calls,        \* one record per call made so far (its promise, its executions)
    started,      \* ids in the order their executions started
    lastGap,      \* how the most recent dequeue followed the previous one
    cache,        \* videoInfoCache: url -> [has, timestamp]
    \* ---- ProxyManager ----
    proxies,      \* this.proxies: sequence of object ids
    obj,          \* heap of ProxyConfig objects: id -> [isActive, failureCount, lastUsed]
    nObjs,        \* number of ProxyConfig objects created so far
    currentIndex, \* this.currentIndex
    strategy,     \* this.config.rotationStrategy
    timers,       \* pending reactivation timers, in the order scheduled: [obj, due, deact]
    timerCap,     \* how many reactivation timers the model lets be pending at once
    result,       \* what getNextProxy returned, when it was the most recent pool operation
    picks,        \* [from, seq]: what consecutive getNextProxy calls returned since the pool
                  \* or an endpoint's activity last changed, and the cursor at that moment
    picksCap,     \* how many consecutive picks the model records
    hostOf,       \* host:port of each ProxyConfig object: id -> string
    creds,        \* [env, ids]: the username and password endpoints are configured with,
                  \* in two deployments that differ in nothing else, and the objects
                  \* that were created with them
    \* ---- ProxyRefreshService ----
    isRefreshing,    \* this.isRefreshing
    refreshInterval, \* this.refreshInterval: a timer handle, or NoHandle for undefined
    intervals,       \* handles of the setInterval timers that have not been cleared
    nHandles,        \* number of setInterval timers created so far
    runs,            \* refreshProxies runs awaiting a source: [src, count, all]
    lastRefresh,     \* what the most recent refreshProxies call did
    \* ---- getVideoInfoWithYtDlp ----
    inv,          \* one invocation: [pc, idx, ran, runs, lastError, out]
    \* ---- getVideoFormats ----
    fmt,          \* [info, out]: the formats of the extraction result, and what
                  \* getVideoFormats returned for them
    \* ---- yt-dlp subprocesses bound to a proxy ----
    att,          \* one record per subprocess spawned with proxyManager.getNextProxy():
                  \* [kind, proxy, proc, timer, settled, oks, fails, chunks]
    \* ---- shared ----
    now           \* Date.now(), in ms

queueVars == <<queue, processing, workers, nLoops, calls, started, lastGap, cache>>
poolVars  == <<proxies, obj, nObjs, currentIndex, strategy, timers, timerCap, result>>
histVars  == <<picks, picksCap>>
refreshVars == <<isRefreshing, refreshInterval, intervals, nHandles, runs, lastRefresh>>
vars      == <<queue, processing, workers, nLoops, calls, started, lastGap, cache,
               proxies, obj, nObjs, currentIndex, strategy, timers, timerCap, result,
               picks, picksCap, hostOf, creds,
               isRefreshing, refreshInterval, intervals, nHandles, runs, lastRefresh,
               inv, fmt, att, now>>

----------------------------------------------------------------------------
\* Bounds of the model

MaxCalls == 2        \* calls made to the queue's entry points
MaxTicksQ == 2       \* clock advances in SpecQueue

\* Program constants
delay == 2000
maxRetries == 3
CACHE_TTL == 3600000

Urls == {"u1", "u2"}
Kinds == {"add", "info", "formats", "download"}
RetryChoices == {0, maxRetries}

----------------------------------------------------------------------------
\* Error messages, as sequences of words (String.includes is a search for a
\* contiguous run of characters; on these messages a run of whole words).

RateLimited   == <<"YouTube", "rate", "limit", "exceeded">>
Forbidden     == <<"Access", "forbidden", "-", "video", "may", "be", "restricted">>
Unavailable   == <<"Video", "unavailable">>
TimedOut      == <<"yt-dlp", "timeout">>
Private       == <<"Video", "is", "private">>
Errors        == {RateLimited, Forbidden, Unavailable, TimedOut, Private}
Ok            == <<>>
Outcomes      == {Ok} \cup Errors

NoValue == [title |-> "none"]

toLowerCase(word) ==
    CASE word = "YouTube" -> "youtube"
      [] word = "Access"  -> "access"
      [] word = "Video"   -> "video"
      [] word = "Network" -> "network"
      [] word = "Connection" -> "connection"
      [] word = "Proxy"   -> "proxy"
      [] OTHER -> word

lower(msg) == [i \in 1..Len(msg) |-> toLowerCase(msg[i])]

includes(msg, pat) ==
    \E k \in 0..(Len(msg) - Len(pat)) :
        \A i \in 1..Len(pat) : msg[k + i] = pat[i]

retryableErrors ==
    { <<"YouTube", "rate", "limit", "exceeded">>,
      <<"Access", "forbidden">>,
      <<"Network", "error">>,
      <<"Connection", "timeout">>,
      <<"Proxy", "error">> }

shouldRetryAll(error) == TRUE

shouldRetry(error) ==
    \E errorType \in retryableErrors : includes(lower(error), lower(errorType))

----------------------------------------------------------------------------
\* ProxyManager (utils/proxy-manager.ts)

MaxObjs == 2         \* ProxyConfig objects ever created
MaxTimers == 1       \* reactivation timers pending at once in SpecPool
MaxTimersC == 2      \* reactivation timers pending at once in SpecCooldown
MaxFailCount == 4    \* cap on failureCount (reports on an inactive endpoint go on counting)
MaxTicksP == 1       \* clock advances in SpecPool
MaxPicks == 4        \* consecutive getNextProxy results recorded in SpecRotation

maxFailures == 3
failureCooldown == 300000

Strategies == {"round-robin", "random", "least-used"}
\* username and password of an endpoint; "undefined" when not configured
NoCredentials == [username |-> "undefined", password |-> "undefined"]
Credentials ==
    { NoCredentials,
      [username |-> "alice", password |-> "pw-a"],
      [username |-> "bob", password |-> "pw-b"] }

\* the environment read by loadProxiesFromConfig, in the two deployments
NoEnv == <<NoCredentials, NoCredentials>>

\* nothing asked of getVideoFormats
NoFormats == [info |-> <<>>, out |-> <<>>, pc |-> "none"]

NoProxy == 0         \* getNextProxy's null
NoCall == -1         \* result when the most recent pool operation was not getNextProxy
NoHandle == 0        \* this.refreshInterval when undefined

\* host:port of the endpoint loadProxiesFromConfig reads from PROXY_HOST, PROXY_PORT
ConfigHost == "proxy.example:8080"

\* addProxy: the object it creates
newProxy == [isActive |-> TRUE, lastUsed |-> 0, failureCount |-> 0]

getAvailableProxiesAll(ps, o) == ps

getAvailableProxies(ps, o) == SelectSeq(ps, LAMBDA p : o[p].isActive)

\* getStats: total, active and failed
getStatsByCount(ps, o) ==
    LET total == Len(ps)
        active == Len(SelectSeq(ps, LAMBDA p : o[p].failureCount = 0))
    IN [total |-> total, active |-> active, failed |-> total - active]

getStats(ps, o) ==
    LET total == Len(ps)
        active == Len(getAvailableProxies(ps, o))
        failed == total - active
    IN [total |-> total, active |-> active, failed |-> failed]

\* Array.prototype.indexOf, 0-based, -1 when absent
indexOf(ps, p) ==
    IF \E i \in 1..Len(ps) : ps[i] = p
    THEN (CHOOSE i \in 1..Len(ps) : ps[i] = p /\ \A j \in 1..(i - 1) : ps[j] # p) - 1
    ELSE -1

\* availableProxies.reduce((prev, current) => prev.lastUsed < current.lastUsed ? prev : current)
RECURSIVE reduceLeastUsed(_, _, _)
reduceLeastUsed(av, o, prev) ==
    IF av = <<>> THEN prev
    ELSE reduceLeastUsed(Tail(av), o,
                         IF o[prev].lastUsed < o[Head(av)].lastUsed THEN prev ELSE Head(av))

\* the round-robin case: the 0-based index selected
roundRobinIndexFirst(ps, av, ci) == indexOf(ps, av[1])

roundRobinIndex(ps, av, ci) ==
    LET availableIndices == [i \in 1..Len(av) |-> indexOf(ps, av[i])]
        found == {i \in 1..Len(av) : availableIndices[i] >= ci}
    IN IF found # {}
       THEN availableIndices[CHOOSE i \in found : \A j \in found : i <= j]
       ELSE availableIndices[1]

\* getNextProxy: the possible (selected, currentIndex', heap') at time t
getNextProxy(ps, o, ci, strat, t) ==
    LET av == getAvailableProxies(ps, o)
        touch(p) == [o EXCEPT ![p].lastUsed = t]
    IN IF Len(av) = 0
       THEN {[sel |-> NoProxy, cur |-> ci, heap |-> o]}
       ELSE CASE strat = "random" ->
                   {[sel |-> av[i], cur |-> ci, heap |-> touch(av[i])] : i \in 1..Len(av)}
              [] strat = "least-used" ->
                   LET p == reduceLeastUsed(Tail(av), o, Head(av))
                   IN {[sel |-> p, cur |-> ci, heap |-> touch(p)]}
              [] OTHER ->
                   LET nextIndex == roundRobinIndex(ps, av, ci)
                       p == ps[nextIndex + 1]
                   IN {[sel |-> p, cur |-> (nextIndex + 1) % Len(ps), heap |-> touch(p)]}

\* reportFailure(proxy): heap' and timers' at time t. Timers of one duration
\* fire in the order they were scheduled, so the pending ones form a queue;
\* deact records whether the call that scheduled the timer deactivated the
\* endpoint (it was active until then).
reportFailure(p, o, ts, t) ==
    LET o1 == [o EXCEPT ![p].failureCount = @ + 1]
    IN IF o1[p].failureCount >= maxFailures
       THEN [heap |-> [o1 EXCEPT ![p].isActive = FALSE],
             timers |-> Append(ts, [obj |-> p, due |-> t + failureCooldown,
                                    deact |-> o[p].isActive])]
       ELSE [heap |-> o1, timers |-> ts]

\* reportSuccess(proxy): heap'
reportSuccess(p, o) ==
    [o EXCEPT ![p].failureCount = IF @ - 1 > 0 THEN @ - 1 ELSE 0]

----------------------------------------------------------------------------
\* YouTubeRequestQueue (utils/youtube.ts) and its callers

NoItem == [id |-> 0, retries |-> 0, maxRetries |-> 0]

newCall(kind, url, mr, st) ==
    [kind |-> kind, url |-> url, maxRetries |-> mr, st |-> st, execs |-> 0,
     settles |-> 0, outs |-> <<>>, waits |-> <<>>, err |-> Ok,
     proc |-> "none", proxy |-> NoProxy]

\* add: the closure it queues. It settles the caller's promise from the
\* action's outcome and itself completes normally in both cases.
requestWrapperResolvesAll(out) == [settle |-> "resolved", threw |-> FALSE]

requestWrapper(out) ==
    [settle |-> IF out = Ok THEN "resolved" ELSE "rejected", threw |-> FALSE]

\* process: the guard of its first line
processGuardNoFlag(p, q) == Len(q) = 0

processGuardNoRestart(p, q) == TRUE

processGuard(p, q) == p \/ Len(q) = 0

\* process: `while (this.queue.length > 0) { item = this.queue.shift(); await item.request()`
\* run by loop k, and the exit `this.processing = false` when the queue is empty
loopHead(q, cs, sd, k, gap, lg) ==
    IF Len(q) > 0
    THEN [queue |-> Tail(q),
          worker |-> {[w |-> k, pc |-> "running", item |-> Head(q), timer |-> 0]},
          calls |-> [cs EXCEPT ![Head(q).id].execs = @ + 1],
          started |-> Append(sd, Head(q).id),
          lastGap |-> IF sd = <<>> THEN "first" ELSE gap,
          processing |-> TRUE]
    ELSE [queue |-> q, worker |-> {}, calls |-> cs, started |-> sd,
          lastGap |-> lg, processing |-> FALSE]

\* cache lookup of getCachedVideoInfo
cacheHitInclusive(c, url, t) == c[url].has /\ t - c[url].timestamp <= CACHE_TTL

cacheHit(c, url, t) == c[url].has /\ t - c[url].timestamp < CACHE_TTL

\* getCachedVideoInfo after its await: a rejection leaves the function before
\* `videoInfoCache.set(url, { data: info, timestamp: Date.now() })`
videoInfoCacheSetAlways(c, url, settle, t) ==
    [c EXCEPT ![url] = [has |-> TRUE, timestamp |-> t]]

videoInfoCacheSet(c, url, settle, t) ==
    IF settle = "resolved"
    THEN [c EXCEPT ![url] = [has |-> TRUE, timestamp |-> t]]
    ELSE c

inFlightExtractions ==
    Cardinality({w \in workers : w.pc = "running" /\ calls[w.item.id].kind # "add"})

inFlightDownloads ==
    Cardinality({i \in 1..Len(calls) : calls[i].proc = "live"})

\* A call to youtubeQueue.add (kind "add"), getCachedVideoInfo ("info"),
\* getVideoFormats ("formats") or downloadVideoStream ("download").
Submit(kind, url, mr) ==
    /\ Len(calls) < MaxCalls
    /\ LET id == Len(calls) + 1
           hit == kind # "add" /\ cacheHit(cache, url, now)
       IN \E r \in getNextProxy(proxies, obj, currentIndex, strategy, now) :
          IF hit
          THEN /\ IF kind = "download"
                  THEN /\ calls' = Append(calls, [newCall(kind, url, mr, "hit")
                                          EXCEPT !.proc = "live", !.proxy = r.sel])
                       /\ obj' = r.heap
                       /\ currentIndex' = r.cur
                  ELSE /\ calls' = Append(calls, newCall(kind, url, mr, "hit"))
                       /\ UNCHANGED <<obj, currentIndex>>
               /\ UNCHANGED <<queue, processing, workers, nLoops, started, lastGap>>
          ELSE LET q1 == Append(queue, [id |-> id, retries |-> 0, maxRetries |-> mr])
                   cs1 == Append(calls, newCall(kind, url, mr, "pending"))
               IN /\ IF processGuard(processing, q1)
                     THEN /\ queue' = q1
                          /\ calls' = cs1
                          /\ UNCHANGED <<processing, workers, nLoops, started, lastGap>>
                     ELSE LET h == loopHead(q1, cs1, started, nLoops + 1, "nowait", lastGap)
                          IN /\ queue' = h.queue
                             /\ calls' = h.calls
                             /\ processing' = h.processing
                             /\ workers' = workers \cup h.worker
                             /\ nLoops' = nLoops + 1
                             /\ started' = h.started
                             /\ lastGap' = h.lastGap
                  /\ UNCHANGED <<obj, currentIndex>>
    /\ UNCHANGED <<cache, proxies, nObjs, strategy, timers, timerCap, result, now>>
    /\ UNCHANGED histVars
    /\ UNCHANGED <<hostOf, refreshVars>>
    /\ UNCHANGED <<inv, att>>
    /\ UNCHANGED <<creds, fmt>>

\* The action run by loop w completes with outcome out: the closure settles the
\* promise, the caller's continuation runs, and process goes on after its await.
Finish(w, out) ==
    /\ w \in workers
    /\ w.pc = "running"
    /\ LET id == w.item.id
           c == calls[id]
           r == requestWrapper(out)
           fresh == c.st = "pending"
           resolved == fresh /\ r.settle = "resolved"
           retry == r.threw /\ w.item.retries < w.item.maxRetries /\ shouldRetry(out)
           item1 == [w.item EXCEPT !.retries = @ + 1]
       IN \E g \in getNextProxy(proxies, obj, currentIndex, strategy, now) :
          LET spawn == resolved /\ c.kind = "download"
              c1 == [c EXCEPT !.outs = Append(@, out),
                              !.settles = @ + 1,
                              !.st = IF fresh THEN r.settle ELSE @,
                              !.err = IF fresh /\ out # Ok THEN out ELSE @,
                              !.waits = IF retry THEN Append(@, delay * item1.retries) ELSE @,
                              !.proc = IF spawn THEN "live" ELSE @,
                              !.proxy = IF spawn THEN g.sel ELSE @]
          IN /\ calls' = [calls EXCEPT ![id] = c1]
             /\ cache' = IF fresh /\ c.kind # "add"
                         THEN videoInfoCacheSet(cache, c.url, r.settle, now)
                         ELSE cache
             /\ IF spawn
                THEN /\ obj' = g.heap
                     /\ currentIndex' = g.cur
                ELSE UNCHANGED <<obj, currentIndex>>
             /\ IF retry
                THEN /\ workers' = (workers \ {w}) \cup
                           {[w EXCEPT !.pc = "backoff", !.item = item1,
                                      !.timer = delay * item1.retries]}
                     /\ UNCHANGED processing
                ELSE IF Len(queue) > 0
                THEN /\ workers' = (workers \ {w}) \cup
                           {[w EXCEPT !.pc = "spacing", !.item = NoItem, !.timer = delay]}
                     /\ UNCHANGED processing
                ELSE /\ workers' = workers \ {w}
                     /\ processing' = FALSE
    /\ UNCHANGED <<queue, nLoops, started, lastGap, proxies, nObjs, strategy, timers,
                   timerCap, result, now>>
    /\ UNCHANGED histVars
    /\ UNCHANGED <<hostOf, refreshVars>>
    /\ UNCHANGED <<inv, att>>
    /\ UNCHANGED <<creds, fmt>>

\* The timer loop w sleeps on fires: after a backoff the item goes back to the
\* front and the inter-item delay follows; after the inter-item delay the loop
\* takes the next item.
Wake(w) ==
    /\ w \in workers
    /\ w.pc \in {"backoff", "spacing"}
    /\ IF w.pc = "backoff"
       THEN /\ queue' = <<w.item>> \o queue
            /\ workers' = (workers \ {w}) \cup
                  {[w EXCEPT !.pc = "spacing", !.item = NoItem, !.timer = delay]}
            /\ UNCHANGED <<processing, calls, started, lastGap>>
       ELSE LET h == loopHead(queue, calls, started, w.w, "waited", lastGap)
            IN /\ queue' = h.queue
               /\ calls' = h.calls
               /\ processing' = h.processing
               /\ workers' = (workers \ {w}) \cup h.worker
               /\ started' = h.started
               /\ lastGap' = h.lastGap
    /\ UNCHANGED <<nLoops, cache, proxies, obj, nObjs, currentIndex, strategy, timers,
                   timerCap, result, now>>
    /\ UNCHANGED histVars
    /\ UNCHANGED <<hostOf, refreshVars>>
    /\ UNCHANGED <<inv, att>>
    /\ UNCHANGED <<creds, fmt>>

\* downloadVideoStream: the "exit" handler of the subprocess it spawned
DownloadExit(id, code) ==
    /\ id \in 1..Len(calls)
    /\ calls[id].proc = "live"
    /\ calls' = [calls EXCEPT ![id].proc = "exited"]
    /\ LET p == calls[id].proxy
       IN IF p = NoProxy
          THEN UNCHANGED <<obj, timers>>
          ELSE IF code = 0
          THEN /\ obj' = reportSuccess(p, obj)
               /\ UNCHANGED timers
          ELSE LET f == reportFailure(p, obj, timers, now)
               IN /\ obj' = f.heap
                  /\ timers' = f.timers
    /\ UNCHANGED <<queue, processing, workers, nLoops, started, lastGap, cache, proxies,
                   nObjs, currentIndex, strategy, timerCap, result, now>>
    /\ UNCHANGED histVars
    /\ UNCHANGED <<hostOf, refreshVars>>
    /\ UNCHANGED <<inv, att>>
    /\ UNCHANGED <<creds, fmt>>

\* Time passes (half a cache lifetime at a time).
TickQ ==
    /\ now < MaxTicksQ * (CACHE_TTL \div 2)
    /\ now' = now + CACHE_TTL \div 2
    /\ UNCHANGED <<queueVars, poolVars, histVars>>
    /\ UNCHANGED <<hostOf, refreshVars>>
    /\ UNCHANGED <<inv, att>>
    /\ UNCHANGED <<creds, fmt>>

\* The state after construction, but for the (empty) cache.
InitButCache ==
    /\ queue = <<>>
    /\ processing = FALSE
    /\ workers = {}
    /\ nLoops = 0
    /\ calls = <<>>
    /\ started = <<>>
    /\ lastGap = "none"
    /\ proxies = <<>>
    /\ obj = <<>>
    /\ nObjs = 0
    /\ currentIndex = 0
    /\ strategy \in Strategies
    /\ timers = <<>>
    /\ timerCap \in {MaxTimers, MaxTimersC}
    /\ result = NoCall
    /\ picks = [from |-> 0, seq |-> <<>>]
    /\ picksCap \in {0, MaxPicks}
    /\ hostOf = <<>>
    /\ isRefreshing = FALSE
    /\ refreshInterval = NoHandle
    /\ intervals = {}
    /\ nHandles = 0
    /\ runs = <<>>
    /\ lastRefresh = "none"
    /\ inv = [pc |-> "idle", idx |-> 1, ran |-> <<>>, runs |-> <<>>, lastError |-> Ok,
              out |-> NoValue]
    /\ att = <<>>
    /\ now = 1

Init ==
    /\ InitButCache
    /\ cache = [u \in Urls |-> [has |-> FALSE, timestamp |-> 0]]

InitQueue ==
    /\ Init /\ strategy = "round-robin" /\ timerCap = MaxTimers /\ picksCap = 0
    /\ creds = [env |-> NoEnv, ids |-> {}] /\ fmt = NoFormats

NextQueue ==
    \/ \E mr \in RetryChoices : Submit("add", "none", mr)
    \/ \E kind \in Kinds \ {"add"}, url \in Urls : Submit(kind, url, maxRetries)
    \/ \E w \in workers, out \in Outcomes : Finish(w, out)
    \/ \E w \in workers : Wake(w)
    \/ \E id \in 1..MaxCalls, code \in {0, 1} : DownloadExit(id, code)
    \/ TickQ

SpecQueue == InitQueue /\ [][NextQueue]_vars

\* Every action terminates, and the timers the loop sleeps on fire.
SpecQueueLive ==
    /\ SpecQueue
    /\ WF_vars(\E w \in workers, out \in Outcomes : Finish(w, out))
    /\ WF_vars(\E w \in workers : Wake(w))

----------------------------------------------------------------------------
\* routes/youtube.ts: POST /info. A url is the sequence of its parts.

VideoIds == {"AbCdEfGhIjK", "ZyXwVuTsRqP"}
NoId == "null"

shortLink(id) == <<"https://", "youtu.be", "/", id>>
shortsLink(id) == <<"https://", "www.", "youtube.com", "/shorts/", id>>
watchLink(id) == <<"https://", "www.", "youtube.com", "/watch?v=", id>>

RawUrls == UNION {{shortLink(id), shortsLink(id), watchLink(id)} : id \in VideoIds}

\* extractVideoId: the 11 characters that follow one of the recognised prefixes
idPrefixes ==
    { <<"youtube.com", "/watch?v=">>, <<"youtu.be", "/">>, <<"youtube.com", "/embed/">>,
      <<"youtube.com", "/v/">>, <<"youtube.com", "/shorts/">> }

extractVideoId(url) ==
    LET at == {k \in 1..(Len(url) - 2) : <<url[k], url[k + 1]>> \in idPrefixes}
    IN IF at = {} THEN NoId
       ELSE url[(CHOOSE k \in at : \A j \in at : k <= j) + 2]

\* url.includes("/shorts/") ? `https://www.youtube.com/watch?v=${videoId}` : url
normalizedUrl(url) ==
    IF \E k \in 1..Len(url) : url[k] = "/shorts/"
    THEN <<"https://", "www.", "youtube.com", "/watch?v=", extractVideoId(url)>>
    ELSE url

\* POST /info with a valid url: the handler looks the normalized url up with
\* getCachedVideoInfo. (Its later getVideoFormats(normalizedUrl) finds the entry
\* that lookup has just returned or written, and submits nothing.)
PostInfo(url) ==
    /\ extractVideoId(url) # NoId
    /\ Submit("info", normalizedUrl(url), maxRetries)

InitRoute ==
    /\ InitButCache
    /\ cache = [u \in RawUrls |-> [has |-> FALSE, timestamp |-> 0]]
    /\ strategy = "round-robin" /\ timerCap = MaxTimers /\ picksCap = 0
    /\ creds = [env |-> NoEnv, ids |-> {}] /\ fmt = NoFormats

NextRoute ==
    \/ \E url \in RawUrls : PostInfo(url)
    \/ \E w \in workers, out \in Outcomes : Finish(w, out)
    \/ \E w \in workers : Wake(w)
    \/ TickQ

SpecRoute == InitRoute /\ [][NextRoute]_vars

----------------------------------------------------------------------------
\* ProxyManager: its operations as actions

inPool(p) == \E i \in 1..Len(proxies) : proxies[i] = p

\* The record of consecutive picks after an operation other than getNextProxy
\* that leaves the pool ps1, the heap o1 and the cursor ci1: it starts afresh
\* when the pool or an endpoint's activity changed.
picksAfter(ps1, o1, ci1) ==
    IF picksCap = 0 THEN picks
    ELSE IF ps1 = proxies /\ \A i \in 1..Len(proxies) :
                                o1[proxies[i]].isActive = obj[proxies[i]].isActive
    THEN picks
    ELSE [from |-> ci1, seq |-> <<>>]

\* Date.now() is positive, so an object getNextProxy has returned (and a caller
\* may still refer to) is one with lastUsed set.
held == {p \in 1..nObjs : obj[p].lastUsed > 0}

\* addProxy
AddProxy ==
    /\ nObjs < MaxObjs
    /\ obj' = Append(obj, newProxy)
    /\ hostOf' = Append(hostOf, ConfigHost)
    /\ creds' = [creds EXCEPT !.ids = @ \cup {nObjs + 1}]
    /\ UNCHANGED fmt
    /\ nObjs' = nObjs + 1
    /\ proxies' = Append(proxies, nObjs + 1)
    /\ result' = NoCall
    /\ picks' = picksAfter(proxies', obj', currentIndex)
    /\ UNCHANGED <<queueVars, currentIndex, strategy, timers, timerCap, picksCap, now>>
    /\ UNCHANGED refreshVars
    /\ UNCHANGED <<inv, att>>

\* getNextProxy, called by downloadVideoStream, which keeps the reference
GetNextProxy ==
    /\ \E r \in getNextProxy(proxies, obj, currentIndex, strategy, now) :
          /\ result' = r.sel
          /\ obj' = r.heap
          /\ currentIndex' = r.cur
          /\ picks' = IF Len(picks.seq) < picksCap
                       THEN [picks EXCEPT !.seq = Append(@, r.sel)]
                       ELSE picks
    /\ UNCHANGED <<queueVars, proxies, nObjs, strategy, timers, timerCap, picksCap, now>>
    /\ UNCHANGED <<hostOf, refreshVars>>
    /\ UNCHANGED <<inv, att>>
    /\ UNCHANGED <<creds, fmt>>

\* reportFailure on an endpoint a caller holds
ReportFailure(p) ==
    /\ p \in held
    /\ obj[p].failureCount < MaxFailCount
    /\ LET f == reportFailure(p, obj, timers, now)
       IN /\ Len(f.timers) <= timerCap
          /\ obj' = f.heap
          /\ timers' = f.timers
    /\ result' = NoCall
    /\ picks' = picksAfter(proxies, obj', currentIndex)
    /\ UNCHANGED <<queueVars, proxies, nObjs, currentIndex, strategy, timerCap, picksCap, now>>
    /\ UNCHANGED <<hostOf, refreshVars>>
    /\ UNCHANGED <<inv, att>>
    /\ UNCHANGED <<creds, fmt>>

\* reportSuccess on an endpoint a caller holds
ReportSuccess(p) ==
    /\ p \in held
    /\ obj' = reportSuccess(p, obj)
    /\ result' = NoCall
    /\ UNCHANGED <<queueVars, proxies, nObjs, currentIndex, strategy, timers, timerCap, now>>
    /\ UNCHANGED histVars
    /\ UNCHANGED <<hostOf, refreshVars>>
    /\ UNCHANGED <<inv, att>>
    /\ UNCHANGED <<creds, fmt>>

\* the callback reportFailure passed to setTimeout
reactivateKeepCount(o, p) == [o EXCEPT ![p].isActive = TRUE]

reactivateAll(o, p) ==
    [q \in DOMAIN o |-> [o[q] EXCEPT !.isActive = TRUE, !.failureCount = 0]]

reactivate(o, p) == [o EXCEPT ![p].isActive = TRUE, ![p].failureCount = 0]

FireTimer ==
    /\ timers # <<>>
    /\ Head(timers).due <= now
    /\ timers' = Tail(timers)
    /\ obj' = reactivate(obj, Head(timers).obj)
    /\ result' = NoCall
    /\ picks' = picksAfter(proxies, obj', currentIndex)
    /\ UNCHANGED <<queueVars, proxies, nObjs, currentIndex, strategy, timerCap, picksCap, now>>
    /\ UNCHANGED <<hostOf, refreshVars>>
    /\ UNCHANGED <<inv, att>>
    /\ UNCHANGED <<creds, fmt>>

\* resetFailureCounts
ResetFailureCounts ==
    /\ obj' = [p \in 1..nObjs |->
                 IF inPool(p) THEN [obj[p] EXCEPT !.failureCount = 0, !.isActive = TRUE]
                 ELSE obj[p]]
    /\ result' = NoCall
    /\ picks' = picksAfter(proxies, obj', currentIndex)
    /\ UNCHANGED <<queueVars, proxies, nObjs, currentIndex, strategy, timers, timerCap,
                   picksCap, now>>
    /\ UNCHANGED <<hostOf, refreshVars>>
    /\ UNCHANGED <<inv, att>>
    /\ UNCHANGED <<creds, fmt>>

\* clearProxies
ClearProxies ==
    /\ proxies' = <<>>
    /\ currentIndex' = 0
    /\ result' = NoCall
    /\ picks' = picksAfter(proxies', obj, currentIndex')
    /\ UNCHANGED <<queueVars, obj, nObjs, strategy, timers, timerCap, picksCap, now>>
    /\ UNCHANGED <<hostOf, refreshVars>>
    /\ UNCHANGED <<inv, att>>
    /\ UNCHANGED <<creds, fmt>>

\* Time passes; a timer fires when it is due.
TickP ==
    /\ now < MaxTicksP * failureCooldown
    /\ timers # <<>> => Head(timers).due > now
    /\ now' = now + failureCooldown
    /\ UNCHANGED <<queueVars, poolVars, histVars>>
    /\ UNCHANGED <<hostOf, refreshVars>>
    /\ UNCHANGED <<inv, att>>
    /\ UNCHANGED <<creds, fmt>>

NextPool ==
    \/ AddProxy
    \/ GetNextProxy
    \/ \E p \in 1..MaxObjs : ReportFailure(p)
    \/ \E p \in 1..MaxObjs : ReportSuccess(p)
    \/ FireTimer
    \/ ResetFailureCounts
    \/ ClearProxies
    \/ TickP

InitPool ==
    /\ Init /\ timerCap = MaxTimers /\ picksCap = 0
    /\ creds = [env |-> NoEnv, ids |-> {}] /\ fmt = NoFormats

SpecPool == InitPool /\ [][NextPool]_vars

\* Failure reports and reactivation timers alone, on the pool of the exported
\* instance (round-robin), with room for a second pending timer.
InitCooldown ==
    /\ Init /\ strategy = "round-robin" /\ timerCap = MaxTimersC /\ picksCap = 0
    /\ creds = [env |-> NoEnv, ids |-> {}] /\ fmt = NoFormats

NextCooldown ==
    \/ AddProxy
    \/ GetNextProxy
    \/ \E p \in 1..MaxObjs : ReportFailure(p)
    \/ FireTimer
    \/ TickP

SpecCooldown == InitCooldown /\ [][NextCooldown]_vars

\* The same operations with consecutive picks recorded, round-robin.
InitRotation ==
    /\ Init /\ strategy = "round-robin" /\ timerCap = MaxTimers /\ picksCap = MaxPicks
    /\ creds = [env |-> NoEnv, ids |-> {}] /\ fmt = NoFormats

SpecRotation == InitRotation /\ [][NextCooldown]_vars

\* ProxyManager.getStats in two deployments that differ in PROXY_USERNAME and
\* PROXY_PASSWORD only and go through the same operations

\* the ProxyConfig object p in deployment k
ProxyConfigOf(p, k) ==
    LET c == IF p \in creds.ids THEN creds.env[k] ELSE NoCredentials
    IN [host |-> hostOf[p], username |-> c.username, password |-> c.password,
        isActive |-> obj[p].isActive, lastUsed |-> obj[p].lastUsed,
        failureCount |-> obj[p].failureCount, maxFailures |-> maxFailures]

\* new Date(t).toISOString(): the calendar fields of t ms since the epoch
toISOString(t) ==
    [days |-> t \div 86400000, hours |-> (t \div 3600000) % 24,
     minutes |-> (t \div 60000) % 60, seconds |-> (t \div 1000) % 60,
     millis |-> t % 1000]

\* getStats: the entry of one endpoint in `proxies`
statsEntryWhole(proxy) == proxy

statsEntry(proxy) ==
    [host |-> proxy.host, isActive |-> proxy.isActive,
     failureCount |-> proxy.failureCount, lastUsed |-> toISOString(proxy.lastUsed)]

\* what getStats() returns in deployment k
getStatsValue(k) ==
    LET counts == getStats(proxies, obj)
    IN [total |-> counts.total, active |-> counts.active, failed |-> counts.failed,
        proxies |-> [i \in 1..Len(proxies) |-> statsEntry(ProxyConfigOf(proxies[i], k))]]

InitCreds ==
    /\ Init /\ strategy = "round-robin" /\ timerCap = MaxTimers /\ picksCap = 0
    /\ \E a \in Credentials : \E b \in Credentials \ {a} :
          creds = [env |-> <<a, b>>, ids |-> {}]
    /\ fmt = NoFormats

SpecCreds == InitCreds /\ [][NextPool]_vars

----------------------------------------------------------------------------
\* ProxyRefreshService (utils/proxy-refresh.ts)

MaxStarts == 2       \* calls of start() (setInterval timers created)

maxProxies == 15
minProxies == 5

Hosts == {"10.0.0.1:80", "10.0.0.2:80"}

\* what awaiting one source ends in: axios.get or the parser throws (HTTP
\* error, timeout, unparsable body), or the parser returns a list of
\* candidates, empty or of one
SourceResponses ==
    {[ok |-> FALSE, list |-> <<>>], [ok |-> TRUE, list |-> <<>>]}
    \cup {[ok |-> TRUE, list |-> <<h>>] : h \in Hosts}

\* the endpoints POST /add-bulk is called with
BulkHosts ==
    << "10.1.0.1:80", "10.1.0.2:80", "10.1.0.3:80", "10.1.0.4:80", "10.1.0.5:80",
       "10.1.0.6:80", "10.1.0.7:80", "10.1.0.8:80", "10.1.0.9:80", "10.1.0.10:80",
       "10.1.0.11:80", "10.1.0.12:80", "10.1.0.13:80", "10.1.0.14:80", "10.1.0.15:80",
       "10.1.0.16:80" >>

\* this.freeProxySources.length
NSources == 3

\* proxyManager.addProxies(list): one new ProxyConfig object per candidate
addProxies(pool, list) ==
    [proxies |-> pool.proxies \o [i \in 1..Len(list) |-> pool.nObjs + i],
     obj |-> pool.obj \o [i \in 1..Len(list) |-> newProxy],
     hostOf |-> pool.hostOf \o list,
     nObjs |-> pool.nObjs + Len(list),
     currentIndex |-> pool.currentIndex]

\* removeFailedProxies: clear the pool and add the active endpoints anew
removeFailedProxiesNone(pool) == pool

removeFailedProxies(pool) ==
    IF getStats(pool.proxies, pool.obj).failed > 0
    THEN LET act == getAvailableProxies(pool.proxies, pool.obj)
             activeProxies == [i \in 1..Len(act) |-> pool.hostOf[act[i]]]
         IN addProxies([pool EXCEPT !.proxies = <<>>, !.currentIndex = 0], activeProxies)
    ELSE pool

\* the guard of refreshProxies
refreshGuardNone(flag) == FALSE

refreshGuard(flag) == flag

\* fetchAndAddFreshProxies: whether what a source ends in leaves the loop
\* over the sources (each source has its own try and catch)
escapesSourceLoopOnFailure(resp) == ~resp.ok

escapesSourceLoop(resp) == FALSE

\* fetchAndAddFreshProxies after its last source: the candidates it adds
proxiesToAddAll(pool, allNewProxies, count) ==
    LET existingHosts == {pool.hostOf[pool.proxies[i]] : i \in 1..Len(pool.proxies)}
    IN SelectSeq(allNewProxies, LAMBDA h : h \notin existingHosts)

proxiesToAdd(pool, allNewProxies, count) ==
    LET existingHosts == {pool.hostOf[pool.proxies[i]] : i \in 1..Len(pool.proxies)}
        uniqueNewProxies == SelectSeq(allNewProxies, LAMBDA h : h \notin existingHosts)
    IN SubSeq(uniqueNewProxies, 1,
              IF count < Len(uniqueNewProxies) THEN count ELSE Len(uniqueNewProxies))

thePool ==
    [proxies |-> proxies, obj |-> obj, hostOf |-> hostOf, nObjs |-> nObjs,
     currentIndex |-> currentIndex]

setPool(pool) ==
    /\ proxies' = pool.proxies
    /\ obj' = pool.obj
    /\ hostOf' = pool.hostOf
    /\ nObjs' = pool.nObjs
    /\ currentIndex' = pool.currentIndex
    /\ picks' = picksAfter(pool.proxies, pool.obj, pool.currentIndex)
    /\ result' = NoCall

\* refreshProxies, up to its first await (or to its end when nothing is fetched)
refreshProxies ==
    IF refreshGuard(isRefreshing)
    THEN /\ lastRefresh' = "skipped"
         /\ UNCHANGED <<isRefreshing, runs, proxies, obj, hostOf, nObjs, currentIndex,
                        picks, result>>
    ELSE LET currentStats == getStats(proxies, obj)
             pool1 == IF currentStats.total > maxProxies
                      THEN removeFailedProxies(thePool) ELSE thePool
             needsRefresh == currentStats.active < minProxies \/ currentStats.failed > 0
             neededProxies == IF minProxies - currentStats.active > currentStats.failed
                              THEN minProxies - currentStats.active
                              ELSE currentStats.failed
         IN /\ setPool(pool1)
            /\ IF needsRefresh
               THEN /\ isRefreshing' = TRUE
                    /\ runs' = Append(runs, [src |-> 1, count |-> neededProxies,
                                             all |-> <<>>, errs |-> 0])
                    /\ lastRefresh' = "fetching"
               ELSE /\ isRefreshing' = FALSE
                    /\ runs' = runs
                    /\ lastRefresh' = "healthy"

\* start()
Start ==
    /\ nHandles < MaxStarts
    /\ refreshProxies
    /\ nHandles' = nHandles + 1
    /\ refreshInterval' = nHandles + 1
    /\ intervals' = intervals \cup {nHandles + 1}
    /\ UNCHANGED <<queueVars, strategy, timers, timerCap, picksCap, now>>
    /\ UNCHANGED <<inv, att>>
    /\ UNCHANGED <<creds, fmt>>

\* stop()
Stop ==
    /\ IF refreshInterval # NoHandle
       THEN /\ intervals' = intervals \ {refreshInterval}
            /\ refreshInterval' = NoHandle
       ELSE UNCHANGED <<intervals, refreshInterval>>
    /\ UNCHANGED <<queueVars, poolVars, histVars, hostOf, isRefreshing, nHandles, runs,
                   lastRefresh, now>>
    /\ UNCHANGED <<inv, att>>
    /\ UNCHANGED <<creds, fmt>>

\* the callback of a setInterval timer that has not been cleared
IntervalFire(h) ==
    /\ h \in intervals
    /\ refreshProxies
    /\ UNCHANGED <<queueVars, strategy, timers, timerCap, picksCap, refreshInterval,
                   intervals, nHandles, now>>
    /\ UNCHANGED <<inv, att>>
    /\ UNCHANGED <<creds, fmt>>

\* POST /refresh/trigger
Trigger ==
    /\ refreshProxies
    /\ UNCHANGED <<queueVars, strategy, timers, timerCap, picksCap, refreshInterval,
                   intervals, nHandles, now>>
    /\ UNCHANGED <<inv, att>>
    /\ UNCHANGED <<creds, fmt>>

\* fetchAndAddFreshProxies of run k: the source it awaits ends in resp; after
\* the last source the new candidates are added and refreshProxies ends. An
\* error that left the loop would end refreshProxies through its catch and
\* finally.
FetchDone(k, resp) ==
    /\ k \in 1..Len(runs)
    /\ LET r == runs[k]
           all1 == IF resp.ok THEN r.all \o resp.list ELSE r.all
           errs1 == IF resp.ok THEN r.errs ELSE r.errs + 1
           others == SubSeq(runs, 1, k - 1) \o SubSeq(runs, k + 1, Len(runs))
       IN IF escapesSourceLoop(resp)
          THEN /\ runs' = others
               /\ isRefreshing' = FALSE
               /\ lastRefresh' = "failed"
               /\ UNCHANGED <<proxies, obj, hostOf, nObjs, currentIndex, picks, result>>
          ELSE IF r.src < NSources
          THEN /\ runs' = [runs EXCEPT ![k] = [r EXCEPT !.src = @ + 1, !.all = all1,
                                                        !.errs = errs1]]
               /\ UNCHANGED <<isRefreshing, proxies, obj, hostOf, nObjs, currentIndex,
                              picks, result, lastRefresh>>
          ELSE /\ runs' = others
               /\ isRefreshing' = FALSE
               /\ lastRefresh' = IF errs1 > 0 THEN "completed, sources failed"
                                 ELSE "completed"
               /\ setPool(addProxies(thePool, proxiesToAdd(thePool, all1, r.count)))
    /\ UNCHANGED <<queueVars, strategy, timers, timerCap, picksCap, refreshInterval,
                   intervals, nHandles, now>>
    /\ UNCHANGED <<inv, att>>
    /\ UNCHANGED <<creds, fmt>>

NextRefresh ==
    \/ Start
    \/ Stop
    \/ \E h \in 1..MaxStarts : IntervalFire(h)
    \/ Trigger
    \/ \E k \in 1..Len(runs), resp \in SourceResponses : FetchDone(k, resp)

InitRefresh ==
    /\ Init /\ strategy = "round-robin" /\ timerCap = MaxTimers /\ picksCap = 0
    /\ creds = [env |-> NoEnv, ids |-> {}] /\ fmt = NoFormats

SpecRefresh == InitRefresh /\ [][NextRefresh]_vars

\* The refresh service, started and started again, on a pool filled through
\* POST /add-bulk, whose endpoints are handed out and reported as failing.

MaxHeld == 2         \* endpoints getNextProxy hands out in SpecMaintain

\* sizes of the list POST /add-bulk is called with
BulkSizes == {3, maxProxies, maxProxies + 1}

\* the username and password of the entries of the list POST /add-bulk is called with
BulkCredentials == [username |-> "alice", password |-> "pw-a"]

\* POST /add-bulk with the first n of BulkHosts, once, on the empty pool: the
\* entries are added as they are, with their credentials
AddBulk(n) ==
    /\ nObjs = 0
    /\ setPool(addProxies(thePool, SubSeq(BulkHosts, 1, n)))
    /\ creds' = [creds EXCEPT !.ids = @ \cup (1..n)]
    /\ UNCHANGED <<queueVars, strategy, timers, timerCap, picksCap, refreshVars,
                   inv, fmt, att, now>>

NextMaintain ==
    \/ \E n \in BulkSizes : AddBulk(n)
    \/ (Cardinality(held) < MaxHeld /\ GetNextProxy)
    \/ \E p \in 1..MaxObjs : ReportFailure(p)
    \/ Start
    \/ \E k \in 1..Len(runs), resp \in SourceResponses : FetchDone(k, resp)

InitMaintain ==
    /\ Init /\ strategy = "round-robin" /\ timerCap = MaxTimersC /\ picksCap = 0
    /\ creds = [env |-> <<BulkCredentials, BulkCredentials>>, ids |-> {}]
    /\ fmt = NoFormats

SpecMaintain == InitMaintain /\ [][NextMaintain]_vars

----------------------------------------------------------------------------
\* getVideoInfoWithYtDlp and executeYtDlpWithProxy (utils/youtube.ts)

\* strategies.length
NStrategies == 4

\* lines the subprocess may write to stdout
JsonLines == {"{\"title\":\"a\"}", "{\"title\":\"b\"}"}
Stdouts == {<<>>, <<"garbage">>} \cup {<<"progress", l>> : l \in JsonLines}

\* what it may write to stderr, as words
Stderrs ==
    { <<>>, <<"HTTP", "Error", "429">>, <<"403", "Forbidden">>, <<"Video", "unavailable">>,
      <<"Private", "video">> }

\* one run of the subprocess: it closes with an exit code, the timeout kills
\* it, or it cannot be spawned
RunOutcomes ==
    [event : {"close"}, code : {0, 1}, stdout : Stdouts, stderr : Stderrs]
    \cup {[event |-> e, code |-> 1, stdout |-> <<>>, stderr |-> <<>>] : e \in {"timeout", "error"}}

\* JSON.parse of a line
JSONparse(line) ==
    CASE line = "{\"title\":\"a\"}" -> [ok |-> TRUE, value |-> [title |-> "a"]]
      [] line = "{\"title\":\"b\"}" -> [ok |-> TRUE, value |-> [title |-> "b"]]
      [] OTHER -> [ok |-> FALSE, value |-> NoValue]

\* executeYtDlpWithProxy: resolved with {stdout, stderr}, or rejected with a message
executeYtDlpWithProxy(run) ==
    IF run.event = "timeout"
    THEN [resolved |-> FALSE, message |-> TimedOut]
    ELSE IF run.event = "error"
    THEN [resolved |-> FALSE, message |-> <<"spawn", "yt-dlp", "ENOENT">>]
    ELSE IF run.code = 0
    THEN [resolved |-> TRUE, message |-> Ok]
    ELSE [resolved |-> FALSE,
          message |-> <<"yt-dlp", "failed:">> \o
                      (IF run.stderr = <<>> THEN <<"Unknown", "error">> ELSE run.stderr)]

\* the error thrown for a run that resolved with nothing on stdout
classify(errorData) ==
    IF includes(errorData, <<"429">>) \/ includes(errorData, <<"Too", "Many", "Requests">>)
    THEN RateLimited
    ELSE IF includes(errorData, <<"403">>) \/ includes(errorData, <<"Forbidden">>)
    THEN Forbidden
    ELSE IF includes(errorData, <<"Video", "unavailable">>)
    THEN Unavailable
    ELSE IF includes(errorData, <<"Private", "video">>)
    THEN Private
    ELSE <<"yt-dlp", "failed:">> \o
         (IF errorData = <<>> THEN <<"Unknown", "error">> ELSE errorData)

\* the try block of one strategy: the object it returns or the message it throws
tryStrategy(run) ==
    LET x == executeYtDlpWithProxy(run)
    IN IF ~x.resolved
       THEN [ok |-> FALSE, value |-> NoValue, message |-> x.message]
       ELSE IF run.stdout # <<>>
       THEN LET p == JSONparse(run.stdout[Len(run.stdout)])
            IN IF p.ok
               THEN [ok |-> TRUE, value |-> p.value, message |-> Ok]
               ELSE [ok |-> FALSE, value |-> NoValue,
                     message |-> <<"Failed", "to", "parse", "video", "info:", "SyntaxError">>]
       ELSE [ok |-> FALSE, value |-> NoValue, message |-> classify(run.stderr)]

\* the catch block: the errors it throws on instead of going to the next strategy
rethrowsNone(message) == FALSE

rethrowsTyped(message) ==
    \/ includes(message, <<"rate", "limit">>) \/ includes(message, <<"Access", "forbidden">>)
    \/ message \in {Unavailable, Private}

rethrows(message) ==
    includes(message, <<"rate", "limit">>) \/ includes(message, <<"Access", "forbidden">>)

\* for (const strategy of strategies): the strategy after the one at idx
nextStrategySame(idx) == idx

nextStrategy(idx) == idx + 1

\* getVideoInfoWithYtDlp is called and starts the run of its first strategy
GetVideoInfo ==
    /\ inv.pc = "idle"
    /\ inv' = [inv EXCEPT !.pc = "running"]
    /\ UNCHANGED <<queueVars, poolVars, histVars, hostOf, refreshVars, now>>
    /\ UNCHANGED <<creds, fmt, att>>

\* The run of strategy inv.idx ends as `run`: the rest of the loop body, and
\* either the end of the invocation or the start of the next strategy's run.
StrategyRun(run) ==
    /\ inv.pc = "running"
    /\ LET t == tryStrategy(run)
           inv1 == [inv EXCEPT !.ran = Append(@, inv.idx), !.runs = Append(@, run)]
       IN inv' =
            IF t.ok
            THEN [inv1 EXCEPT !.pc = "returned", !.out = t.value]
            ELSE IF rethrows(t.message)
            THEN [inv1 EXCEPT !.pc = "threw", !.lastError = t.message, !.out = t.message]
            ELSE IF inv.idx < NStrategies
            THEN [inv1 EXCEPT !.idx = nextStrategy(inv.idx), !.lastError = t.message]
            ELSE [inv1 EXCEPT !.pc = "threw", !.lastError = t.message, !.out = t.message]
    /\ UNCHANGED <<queueVars, poolVars, histVars, hostOf, refreshVars, now>>
    /\ UNCHANGED <<creds, fmt, att>>

NextInvoke ==
    \/ GetVideoInfo
    \/ \E run \in RunOutcomes : StrategyRun(run)

InitInvoke ==
    /\ Init /\ strategy = "round-robin" /\ timerCap = MaxTimers /\ picksCap = 0
    /\ creds = [env |-> NoEnv, ids |-> {}] /\ fmt = NoFormats

SpecInvoke == InitInvoke /\ [][NextInvoke]_vars

\* A subprocess always ends: it closes, or the timeout kills it.
SpecInvokeLive == SpecInvoke /\ WF_vars(\E run \in RunOutcomes : StrategyRun(run))

----------------------------------------------------------------------------
\* Subprocesses bound to a proxy: executeYtDlpWithProxy as it is with proxy
\* rotation on, and the subprocess downloadVideoStream spawns.

MaxAttempts == 2
MaxChunks == 2

NoCode == -1

\* what such a subprocess may have written to stderr by the time it ends, and
\* the chunks in which a download writes it
AttemptStderrs ==
    { <<>>, <<"ERROR:", "Video", "unavailable">>,
      <<"ERROR:", "Unable", "to", "connect", "to", "proxy">> }

newAttempt(kind, proxy, timer) ==
    [kind |-> kind, proxy |-> proxy, proc |-> "live", timer |-> timer,
     settled |-> "pending", timedOut |-> FALSE, errored |-> FALSE, code |-> NoCode,
     stderr |-> <<>>, chunks |-> 0, oks |-> 0, fails |-> 0]

\* executeYtDlpWithProxy, "close" handler: `const isProxyError = ...`
isProxyErrorAny(stderr) == TRUE

isProxyError(stderr) ==
    \/ includes(stderr, <<"proxy">>)
    \/ includes(stderr, <<"connection">>)
    \/ includes(stderr, <<"timeout">>)
    \/ includes(stderr, <<"403">>)
    \/ includes(stderr, <<"429">>)

\* downloadVideoStream, stderr "data" handler: the condition of its report
isProxyChunk(errorOutput) ==
    includes(errorOutput, <<"proxy">>) \/ includes(errorOutput, <<"connection">>)

\* `if (proxy) proxyManager.reportSuccess(proxy)` / `reportFailure(proxy, error)`
\* in a handler of attempt a, or no report at all
Report(a, what) ==
    LET p == att[a].proxy
    IN /\ IF p = NoProxy \/ what = "none"
          THEN UNCHANGED <<obj, timers>>
          ELSE IF what = "success"
          THEN /\ obj' = reportSuccess(p, obj)
               /\ UNCHANGED timers
          ELSE LET f == reportFailure(p, obj, timers, now)
               IN /\ obj' = f.heap
                  /\ timers' = f.timers
       /\ result' = NoCall
       /\ picks' = picksAfter(proxies, obj', currentIndex)

\* the reports attempt a has caused so far, after a handler made the report `what`
counted(c, what) ==
    IF c.proxy = NoProxy \/ what = "none" THEN c
    ELSE IF what = "success" THEN [c EXCEPT !.oks = @ + 1]
    ELSE [c EXCEPT !.fails = @ + 1]

\* const proxy = proxyManager.getNextProxy(); ...; spawn(...): the start of an
\* attempt of executeYtDlpWithProxy (with its timeout) or of downloadVideoStream
\* (without one)
Spawn(kind) ==
    /\ Len(att) < MaxAttempts
    /\ \E r \in getNextProxy(proxies, obj, currentIndex, strategy, now) :
          /\ att' = Append(att, newAttempt(kind, r.sel, kind = "extract"))
          /\ result' = r.sel
          /\ obj' = r.heap
          /\ currentIndex' = r.cur
          /\ picks' = IF Len(picks.seq) < picksCap
                       THEN [picks EXCEPT !.seq = Append(@, r.sel)]
                       ELSE picks
    /\ UNCHANGED <<queueVars, proxies, nObjs, strategy, timers, timerCap, picksCap, now>>
    /\ UNCHANGED <<hostOf, refreshVars, inv, creds, fmt>>

\* executeYtDlpWithProxy: the timeout fires. It kills the subprocess, reports
\* the failure and rejects; the "close" of the killed subprocess follows.
ExtractTimeout(a) ==
    /\ a \in 1..Len(att)
    /\ att[a].kind = "extract" /\ att[a].proc = "live" /\ att[a].timer
    /\ Report(a, "failure")
    /\ att' = [att EXCEPT ![a] = [counted(@, "failure") EXCEPT
                                     !.proc = "killed", !.timer = FALSE, !.timedOut = TRUE,
                                     !.settled = "rejected"]]
    /\ UNCHANGED <<queueVars, proxies, nObjs, currentIndex, strategy, timerCap, picksCap, now>>
    /\ UNCHANGED <<hostOf, refreshVars, inv, creds, fmt>>

\* executeYtDlpWithProxy: ytDlp.on("close"). A subprocess that was killed or
\* could not be spawned closes with no exit code of its own (not 0); stderr
\* is what it had written until then.
ExtractClose(a, code, stderr) ==
    /\ a \in 1..Len(att)
    /\ att[a].kind = "extract" /\ att[a].proc \in {"live", "killed", "errored"}
    /\ att[a].proc # "live" => code # 0
    /\ att[a].proc = "errored" => stderr = <<>>
    /\ LET what == IF code = 0 THEN "success"
                   ELSE IF isProxyError(stderr) THEN "failure" ELSE "none"
       IN /\ Report(a, what)
          /\ att' = [att EXCEPT ![a] = [counted(@, what) EXCEPT
                          !.proc = "closed", !.timer = FALSE, !.code = code,
                          !.stderr = stderr,
                          !.settled = IF @ # "pending" THEN @
                                      ELSE IF code = 0 THEN "resolved" ELSE "rejected"]]
    /\ UNCHANGED <<queueVars, proxies, nObjs, currentIndex, strategy, timerCap, picksCap, now>>
    /\ UNCHANGED <<hostOf, refreshVars, inv, creds, fmt>>

\* executeYtDlpWithProxy: ytDlp.on("error"), the subprocess could not be spawned
ExtractError(a) ==
    /\ a \in 1..Len(att)
    /\ att[a].kind = "extract" /\ att[a].proc = "live"
    /\ Report(a, "failure")
    /\ att' = [att EXCEPT ![a] = [counted(@, "failure") EXCEPT
                                     !.proc = "errored", !.timer = FALSE, !.errored = TRUE,
                                     !.settled = "rejected"]]
    /\ UNCHANGED <<queueVars, proxies, nObjs, currentIndex, strategy, timerCap, picksCap, now>>
    /\ UNCHANGED <<hostOf, refreshVars, inv, creds, fmt>>

\* downloadVideoStream: ytDlp.stderr.on("data") with one chunk
StreamStderr(a, errorOutput) ==
    /\ a \in 1..Len(att)
    /\ att[a].kind = "download" /\ att[a].proc = "live"
    /\ att[a].chunks < MaxChunks
    /\ LET what == IF isProxyChunk(errorOutput) THEN "failure" ELSE "none"
       IN /\ Report(a, what)
          /\ att' = [att EXCEPT ![a] = [counted(@, what) EXCEPT
                          !.chunks = @ + 1, !.stderr = @ \o errorOutput]]
    /\ UNCHANGED <<queueVars, proxies, nObjs, currentIndex, strategy, timerCap, picksCap, now>>
    /\ UNCHANGED <<hostOf, refreshVars, inv, creds, fmt>>

\* downloadVideoStream: ytDlp.on("exit"). After an "error" the event may or
\* may not follow, with a code that is not 0.
StreamExit(a, code) ==
    /\ a \in 1..Len(att)
    /\ att[a].kind = "download" /\ att[a].proc \in {"live", "errored"}
    /\ att[a].proc = "errored" => code # 0
    /\ LET what == IF code = 0 THEN "success" ELSE "failure"
       IN /\ Report(a, what)
          /\ att' = [att EXCEPT ![a] = [counted(@, what) EXCEPT
                          !.proc = "exited", !.code = code]]
    /\ UNCHANGED <<queueVars, proxies, nObjs, currentIndex, strategy, timerCap, picksCap, now>>
    /\ UNCHANGED <<hostOf, refreshVars, inv, creds, fmt>>

\* downloadVideoStream: ytDlp.on("error")
StreamError(a) ==
    /\ a \in 1..Len(att)
    /\ att[a].kind = "download" /\ att[a].proc = "live" /\ att[a].chunks = 0
    /\ Report(a, "failure")
    /\ att' = [att EXCEPT ![a] = [counted(@, "failure") EXCEPT
                                     !.proc = "errored", !.errored = TRUE]]
    /\ UNCHANGED <<queueVars, proxies, nObjs, currentIndex, strategy, timerCap, picksCap, now>>
    /\ UNCHANGED <<hostOf, refreshVars, inv, creds, fmt>>

NextAttempt ==
    \/ AddProxy
    \/ \E kind \in {"extract", "download"} : Spawn(kind)
    \/ \E a \in 1..MaxAttempts : ExtractTimeout(a)
    \/ \E a \in 1..MaxAttempts, code \in {0, 1}, stderr \in AttemptStderrs :
          ExtractClose(a, code, stderr)
    \/ \E a \in 1..MaxAttempts : ExtractError(a)
    \/ \E a \in 1..MaxAttempts, errorOutput \in AttemptStderrs \ {<<>>} :
          StreamStderr(a, errorOutput)
    \/ \E a \in 1..MaxAttempts, code \in {0, 1} : StreamExit(a, code)
    \/ \E a \in 1..MaxAttempts : StreamError(a)

InitAttempt ==
    /\ Init /\ strategy = "round-robin" /\ timerCap = MaxTimersC /\ picksCap = 0
    /\ creds = [env |-> NoEnv, ids |-> {}] /\ fmt = NoFormats

SpecAttempt == InitAttempt /\ [][NextAttempt]_vars

----------------------------------------------------------------------------
\* getVideoFormats (utils/youtube.ts): what it computes from info.formats

MaxFormats == 4      \* formats in the extraction result

Heights == {360, 720, 1080, 1440}

\* a format of the extraction result: one with video, audio, the mp4
\* container and a height, or one that lacks one of the four (height 0
\* stands for an absent or null height)
FormatChoices ==
    {[vcodec |-> "avc1", acodec |-> "mp4a", ext |-> "mp4", height |-> h, format_id |-> 0] :
        h \in Heights}
    \cup {[vcodec |-> "none", acodec |-> "mp4a", ext |-> "mp4", height |-> 2160, format_id |-> 0],
          [vcodec |-> "avc1", acodec |-> "none", ext |-> "mp4", height |-> 2160, format_id |-> 0],
          [vcodec |-> "avc1", acodec |-> "mp4a", ext |-> "webm", height |-> 2160, format_id |-> 0],
          [vcodec |-> "avc1", acodec |-> "mp4a", ext |-> "mp4", height |-> 0, format_id |-> 0]}

\* info.formats: up to MaxFormats formats, the k-th with format_id k
FormatLists ==
    UNION {{[i \in 1..n |-> [c[i] EXCEPT !.format_id = i]] : c \in [1..n -> FormatChoices]} :
              n \in 0..MaxFormats}

DigitChars == <<"0", "1", "2", "3", "4", "5", "6", "7", "8", "9">>

\* `${format.height}`: the decimal digits of a non-negative integer
RECURSIVE toString(_)
toString(n) ==
    IF n < 10 THEN <<DigitChars[n + 1]>>
    ELSE toString(n \div 10) \o <<DigitChars[(n % 10) + 1]>>

\* parseInt(a.quality): the number its leading digits spell
RECURSIVE parseIntFrom(_, _)
parseIntFrom(chars, acc) ==
    IF chars = <<>> \/ ~(\E d \in 1..10 : DigitChars[d] = Head(chars))
    THEN acc
    ELSE parseIntFrom(Tail(chars),
                      10 * acc + (CHOOSE d \in 1..10 : DigitChars[d] = Head(chars)) - 1)

parseInt(chars) == parseIntFrom(chars, 0)

\* the predicate of the first filter
eligible(format) ==
    /\ format.vcodec # "none"
    /\ format.acodec # "none"
    /\ format.ext = "mp4"
    /\ format.height # 0

\* the map: the entry made of a format
formatEntry(format) ==
    [quality |-> toString(format.height) \o <<"p">>, format |-> format.ext,
     format_id |-> format.format_id]

\* Array.prototype.sort with (a, b) => parseInt(b.quality) - parseInt(a.quality): stable
RECURSIVE insertSorted(_, _)
insertSorted(sorted, e) ==
    IF sorted = <<>> THEN <<e>>
    ELSE IF parseInt(e.quality) - parseInt(Head(sorted).quality) > 0
    THEN <<e>> \o sorted
    ELSE <<Head(sorted)>> \o insertSorted(Tail(sorted), e)

RECURSIVE sortFormats(_)
sortFormats(entries) ==
    IF entries = <<>> THEN <<>>
    ELSE insertSorted(sortFormats(SubSeq(entries, 1, Len(entries) - 1)),
                      entries[Len(entries)])

\* arr.findIndex((f) => f.quality === quality), 1-based, 0 when absent
findIndex(arr, quality) ==
    IF \E i \in 1..Len(arr) : arr[i].quality = quality
    THEN CHOOSE i \in 1..Len(arr) :
            arr[i].quality = quality /\ \A j \in 1..(i - 1) : arr[j].quality # quality
    ELSE 0

\* the second filter
uniqueFormatsAll(formats) == formats

uniqueFormats(formats) ==
    LET keep == {i \in 1..Len(formats) : findIndex(formats, formats[i].quality) = i}
        F[i \in 0..Len(formats)] ==
            IF i = 0 THEN <<>>
            ELSE IF i \in keep THEN Append(F[i - 1], formats[i]) ELSE F[i - 1]
    IN F[Len(formats)]

\* what getVideoFormats returns for info.formats
getVideoFormats(infoFormats) ==
    LET elig == SelectSeq(infoFormats, eligible)
        formats == sortFormats([i \in 1..Len(elig) |-> formatEntry(elig[i])])
        unique == uniqueFormats(formats)
    IN SubSeq(unique, 1, IF Len(unique) < 3 THEN Len(unique) ELSE 3)

\* getVideoFormats, from the extraction result to its return
GetVideoFormats ==
    /\ fmt.pc = "asked"
    /\ fmt' = [fmt EXCEPT !.out = getVideoFormats(fmt.info), !.pc = "returned"]
    /\ UNCHANGED <<queueVars, poolVars, histVars, hostOf, creds, refreshVars, inv, att, now>>

InitFormats ==
    /\ Init /\ strategy = "round-robin" /\ timerCap = MaxTimers /\ picksCap = 0
    /\ creds = [env |-> NoEnv, ids |-> {}]
    /\ fmt \in {[info |-> l, out |-> <<>>, pc |-> "asked"] : l \in FormatLists}

SpecFormats == InitFormats /\ [][GetVideoFormats]_vars

----------------------------------------------------------------------------
\* Claims about the request queue (checked under SpecQueue)

settled(c) == c.st \in {"resolved", "rejected"}

\* the item of call i is waiting in the queue
queued(i) == \E k \in 1..Len(queue) : queue[k].id = i

\* the item of call i is held by a loop (running, or sleeping before its retry)
inLoop(i) == \E w \in workers : w.item.id = i

\* C1: an action added with the default maxRetries whose executions so far all
\* failed with a retryable error, two at most, has not been rejected (it is
\* going to run again); and one that failed twice with 'YouTube rate limit
\* exceeded' and then succeeded ran exactly 3 times, is resolved, and waited
\* delay * 1 and then the strictly longer delay * 2 before its retries.
C1_RetriesUntilSuccess ==
    \A i \in 1..Len(calls) :
        LET c == calls[i]
        IN /\ ( /\ c.maxRetries = maxRetries
                /\ c.outs # <<>>
                /\ Len(c.outs) <= 2
                /\ \A k \in 1..Len(c.outs) : shouldRetry(c.outs[k]) )
              => c.st = "pending"
           /\ c.outs = <<RateLimited, RateLimited, Ok>>
              => /\ c.st = "resolved"
                 /\ c.execs = 3
                 /\ c.waits = <<delay * 1, delay * 2>>
                 /\ c.waits[1] < c.waits[2]

\* C2: the promise of an added action is settled at most once, and it is
\* settled only on a terminal outcome: a success, a non-retryable failure, or
\* a retryable failure with the retries exhausted; once settled the item is
\* neither queued nor held by the loop.
C2_SettledOnceWhenTerminal ==
    \A i \in 1..Len(calls) :
        LET c == calls[i]
        IN /\ c.settles <= 1
           /\ settled(c)
              => /\ c.settles = 1
                 /\ \/ c.outs[Len(c.outs)] = Ok
                    \/ ~shouldRetry(c.outs[Len(c.outs)])
                    \/ Len(c.outs) = c.maxRetries + 1
                 /\ ~queued(i)
                 /\ ~inLoop(i)

\* C3: at most one action submitted to the queue is executing at any moment.
C3_OneActionAtATime ==
    Cardinality({w \in workers : w.pc = "running"}) <= 1

\* an add was made while another action was running: one action runs, the
\* other waits in the queue
C3_Witness ==
    /\ \E w \in workers : w.pc = "running"
    /\ Len(queue) > 0
    /\ Len(calls) >= 2

\* C4: at most one extraction-tool subprocess (a metadata extraction run by the
\* queue, or a stream download) is in flight at any moment.
C4_OneSubprocessInFlight ==
    inFlightExtractions + inFlightDownloads <= 1

\* C5: an action that failed with a non-retryable error was executed exactly
\* once, with no retry, and its promise was rejected exactly once, with that
\* error.
C5_NonRetryableRunsOnce ==
    \A i \in 1..Len(calls) :
        LET c == calls[i]
        IN (c.outs # <<>> /\ c.outs[1] \in Errors /\ ~shouldRetry(c.outs[1]))
           => /\ c.execs = 1
              /\ c.outs = <<c.outs[1]>>
              /\ c.waits = <<>>
              /\ c.st = "rejected"
              /\ c.settles = 1
              /\ c.err = c.outs[1]
              /\ ~queued(i)
              /\ ~inLoop(i)

\* an action failed with 'Video unavailable' and another with 'yt-dlp timeout'
C5_Witness ==
    /\ \E i \in 1..Len(calls) : calls[i].outs = <<Unavailable>> /\ calls[i].st = "rejected"
    /\ \E i \in 1..Len(calls) : calls[i].outs = <<TimedOut>> /\ calls[i].st = "rejected"

\* C6: an action rejected with a retryable error was executed maxRetries + 1
\* times (its retries were exhausted), the error being that of the last
\* execution, and the item is gone from the queue.
C6_RetriesExhausted ==
    \A i \in 1..Len(calls) :
        LET c == calls[i]
        IN (c.st = "rejected" /\ shouldRetry(c.err))
           => /\ c.execs = c.maxRetries + 1
              /\ c.err = c.outs[Len(c.outs)]
              /\ ~queued(i)

\* C7: first executions start in the order of the adds, and an item whose
\* latest execution failed with a retryable error while it had retries left
\* is held for its backoff, is at the front of the queue, or is running
\* again: it is not dropped, and nothing that was waiting runs before it.
C7_RetriedItemGoesFirst ==
    /\ \A a, b \in 1..Len(started) :
          (a < b /\ calls[started[a]].execs = 1 /\ calls[started[b]].execs = 1)
          => started[a] < started[b]
    /\ \A i \in 1..Len(calls) :
          LET c == calls[i]
          IN (c.outs # <<>> /\ shouldRetry(c.outs[Len(c.outs)]) /\ Len(c.outs) <= c.maxRetries)
             => \/ \E w \in workers : w.item.id = i
                \/ (queue # <<>> /\ Head(queue).id = i)

\* C8: every dequeue after the first one follows the inter-item delay.
C8_DelayBeforeEveryDequeue ==
    lastGap # "nowait"

----------------------------------------------------------------------------
\* Claims about the proxy pool

\* C9: getNextProxy returns an endpoint that is in the pool and active at that
\* moment whenever there is one, and null otherwise (checked under SpecPool,
\* for the three rotation policies).
C9_NextProxyActive ==
    result # NoCall
    => IF \E p \in 1..nObjs : inPool(p) /\ obj[p].isActive
       THEN result # NoProxy /\ inPool(result) /\ obj[result].isActive
       ELSE result = NoProxy

\* getNextProxy passed over the inactive first endpoint of a pool of two and
\* returned the second
C9_Witness ==
    /\ Len(proxies) = 2
    /\ ~obj[proxies[1]].isActive
    /\ result = proxies[2]

\* C10: under failure reports alone (SpecCooldown), an endpoint whose
\* failureCount has reached maxFailures is inactive, and an endpoint
\* deactivated by a failure report is inactive as long as the reactivation
\* timer scheduled by that report is pending and not yet due.
C10_InactiveUntilOwnTimer ==
    /\ \A p \in 1..nObjs : obj[p].failureCount >= maxFailures => ~obj[p].isActive
    /\ \A i \in 1..Len(timers) :
          (timers[i].deact /\ timers[i].due > now) => ~obj[timers[i].obj].isActive

\* C11: round-robin, while neither the pool nor any endpoint's activity
\* changes: the first call returns the first active endpoint at or after the
\* cursor (the first active one of the list when there is none), every next
\* call returns the active endpoint that follows the previous one in list
\* order, wrapping around; so N consecutive calls return the N active
\* endpoints once each and the next N calls repeat them in the same order.
C11_RoundRobinRotation ==
    LET av == SelectSeq(proxies, LAMBDA p : obj[p].isActive)
        n == Len(av)
        s == picks.seq
        pos(p) == CHOOSE k \in 1..n : av[k] = p
        atOrAfter == {k \in 1..n : indexOf(proxies, av[k]) >= picks.from}
    IN n > 0 =>
         /\ s # <<>> =>
               s[1] = IF atOrAfter # {}
                      THEN av[CHOOSE k \in atOrAfter : \A j \in atOrAfter : k <= j]
                      ELSE av[1]
         /\ \A i \in 1..Len(s) : \E k \in 1..n : av[k] = s[i]
         /\ \A i \in 1..(Len(s) - 1) : s[i + 1] = av[(pos(s[i]) % n) + 1]
         /\ \A i, j \in 1..Len(s) : (i < j /\ j < i + n) => s[i] # s[j]
         /\ \A i \in 1..(Len(s) - n) : s[i + n] = s[i]

\* four consecutive calls on a pool of two active endpoints, starting at the
\* second: second, first, second, first
C11_Witness ==
    /\ Len(proxies) = 2
    /\ picks = [from |-> 1, seq |-> <<proxies[2], proxies[1], proxies[2], proxies[1]>>]

\* C12: getStats reports total = active + failed with active the number of
\* endpoints of the pool whose isActive is true; while no cooldown has elapsed
\* the failed ones are exactly the k endpoints that received maxFailures
\* failure reports (active = N - k, failed = k); and once every reactivation
\* timer has fired it reports active = N, failed = 0 (checked under
\* SpecCooldown, where failureCount counts the reports received).
C12_StatsAddUp ==
    LET st == getStats(proxies, obj)
        N == Len(proxies)
        k == Cardinality({i \in 1..N : obj[proxies[i]].failureCount >= maxFailures})
    IN /\ st.total = N
       /\ st.total = st.active + st.failed
       /\ st.active = Cardinality({i \in 1..N : obj[proxies[i]].isActive})
       /\ now < failureCooldown => (st.active = N - k /\ st.failed = k)
       /\ timers = <<>> => (st.active = N /\ st.failed = 0)

\* of two endpoints one has received maxFailures failure reports and the other
\* fewer: 1 active, 1 failed
C12_Witness ==
    /\ Len(proxies) = 2
    /\ now < failureCooldown
    /\ obj[proxies[1]].failureCount = maxFailures
    /\ obj[proxies[2]].failureCount = 1
    /\ getStats(proxies, obj) = [total |-> 2, active |-> 1, failed |-> 1]

\* C13: a call of getCachedVideoInfo (directly, or through getVideoFormats or
\* downloadVideoStream) is answered from the cache, with nothing submitted to
\* the queue, if and only if the cache holds an entry for the url with
\* now - timestamp < CACHE_TTL; otherwise an extraction is submitted, and its
\* success overwrites the entry with the current time; a lookup leaves the
\* cache as it is and no step removes an entry.
C13_CacheHitIffFresh ==
    [][ /\ (Len(calls') = Len(calls) + 1 /\ calls'[Len(calls')].kind # "add")
           => LET id == Len(calls')
                  c == calls'[id]
                  fresh == /\ cache[c.url].has
                           /\ now - cache[c.url].timestamp < CACHE_TTL
              IN /\ (c.st = "hit") <=> fresh
                 /\ fresh => (queue' = queue /\ workers' = workers /\ started' = started)
                 /\ ~fresh => /\ c.st = "pending"
                               /\ \/ \E k \in 1..Len(queue') : queue'[k].id = id
                                  \/ \E w \in workers' : w.item.id = id
                 /\ cache' = cache
        /\ \A i \in 1..Len(calls) :
              (calls[i].kind # "add" /\ calls[i].st = "pending" /\ calls'[i].st = "resolved")
              => cache'[calls[i].url] = [has |-> TRUE, timestamp |-> now]
        /\ \A u \in DOMAIN cache : cache[u].has => cache'[u].has
      ]_vars

\* an entry written TTL or more ago is still in the cache while the extraction
\* submitted by a later lookup of the same url, made after the first one had
\* finished, is running
C13_Witness ==
    /\ Len(calls) = 2
    /\ calls[1].kind = "info" /\ calls[1].st = "resolved"
    /\ calls[2].kind = "info" /\ calls[2].st = "pending" /\ calls[2].url = calls[1].url
    /\ lastGap = "nowait"
    /\ cache[calls[2].url].has
    /\ now - cache[calls[2].url].timestamp >= CACHE_TTL
    /\ \E w \in workers : w.pc = "running" /\ w.item.id = 2

\* C14: the cache is keyed by video: when POST /info looks a url up while the
\* cache holds a fresh entry for any form of the same video id, the lookup is
\* a hit (checked under SpecRoute, over the youtu.be, /shorts/ and /watch?v=
\* forms).
C14_OneEntryPerVideo ==
    [][ (Len(calls') = Len(calls) + 1 /\ calls'[Len(calls')].kind = "info")
        => LET c == calls'[Len(calls')]
           IN (\E u \in DOMAIN cache :
                  /\ cache[u].has
                  /\ now - cache[u].timestamp < CACHE_TTL
                  /\ extractVideoId(u) = extractVideoId(c.url))
              => c.st = "hit"
      ]_vars

----------------------------------------------------------------------------
\* Claims about the refresh service (checked under SpecRefresh)

\* host:port pairs of the endpoints of a pool, in list order
poolHosts(ps, hs) == [i \in 1..Len(ps) |-> hs[ps[i]]]

distinct(sq) == \A i, j \in 1..Len(sq) : i # j => sq[i] # sq[j]

\* C15: at most one refresh run is in progress, and while one is in progress
\* a step that is not a step of that run (a call of refreshProxies by start,
\* by the periodic timer or by the trigger route) leaves the pool as it is and
\* starts no fetch.
C15_RefreshRunsDoNotOverlap ==
    [][ /\ Len(runs') <= 1
        /\ (runs # <<>> /\ runs' = runs)
           => (proxies' = proxies /\ obj' = obj /\ hostOf' = hostOf /\ isRefreshing')
      ]_vars

\* a call was skipped while the run in progress was waiting for its second source
C15_Witness ==
    /\ Len(runs) = 1
    /\ runs[1].src = 2
    /\ isRefreshing
    /\ lastRefresh = "skipped"

\* C16: while the service is stopped (this.refreshInterval is undefined: stop
\* has returned and start has not been called since, or start was never
\* called) no periodic timer is live, so no periodic refresh run can start.
C16_StopEndsPeriodicRuns ==
    refreshInterval = NoHandle => intervals = {}

\* C17: the endpoints a refresh run adds have host:port pairs that no endpoint
\* of the pool has and that are pairwise distinct, so a pool of pairwise
\* distinct host:port pairs stays one.
C17_InsertedEndpointsAreNew ==
    [][ (Len(runs') < Len(runs))
        => LET before == poolHosts(proxies, hostOf)
               after == poolHosts(proxies', hostOf')
               ins == SubSeq(after, Len(before) + 1, Len(after))
           IN /\ SubSeq(after, 1, Len(before)) = before
              /\ \A i \in 1..Len(ins) : \A j \in 1..Len(before) : ins[i] # before[j]
              /\ distinct(ins)
              /\ distinct(before) => distinct(after)
      ]_vars

----------------------------------------------------------------------------
\* Claims about the extraction strategies (checked under SpecInvoke)

\* the run exited with code 0 and the last line of its stdout is JSON
exitsWithJson(run) ==
    /\ run.event = "close"
    /\ run.code = 0
    /\ run.stdout # <<>>
    /\ run.stdout[Len(run.stdout)] \in JsonLines

parsedFrom(run) == JSONparse(run.stdout[Len(run.stdout)]).value

C18_Order ==
    LET n == Len(inv.runs)
    IN /\ n <= NStrategies
       /\ inv.ran = [i \in 1..n |-> i]
       /\ \A i \in 1..n :
            exitsWithJson(inv.runs[i]) =>
                i = n /\ inv.pc = "returned" /\ inv.out = parsedFrom(inv.runs[i])
       /\ inv.pc = "returned" => n >= 1 /\ exitsWithJson(inv.runs[n])
       /\ (n = NStrategies /\ \A i \in 1..n : ~exitsWithJson(inv.runs[i])) =>
            inv.pc = "threw"
       /\ inv.pc = "threw" =>
            /\ n >= 1
            /\ inv.out = tryStrategy(inv.runs[n]).message
            /\ inv.out = inv.lastError
       /\ inv.pc = "running" => n < NStrategies

\* C18: an invocation runs the strategies in list order, each at most once
\* (the k-th run is the run of strategy k, and there are at most NStrategies
\* runs); a run that exits 0 with parseable JSON is the last run and its
\* parsed object is what the invocation returns, and the invocation returns
\* only so; when all strategies were run and none succeeded the invocation
\* has thrown, and whenever it throws it throws the error of the most recent
\* run; and every invocation that has started ends, returned or thrown.
C18_StrategiesInOrderUntilSuccess ==
    /\ []C18_Order
    /\ (inv.pc = "running") ~> (inv.pc \in {"returned", "threw"})

\* two strategies failed, each in its own way, without ending the
\* invocation, and the third one's JSON was returned
C18_Witness ==
    /\ inv.pc = "returned"
    /\ inv.ran = <<1, 2, 3>>
    /\ inv.runs[1].event = "timeout"
    /\ inv.runs[2].code = 1 /\ inv.runs[2].stderr = <<"Video", "unavailable">>
    /\ inv.out = [title |-> "b"]

\* C19: a run that does not succeed and has a rate-limit marker ("429",
\* "Too Many Requests") in its stderr is the last run of the invocation,
\* which has thrown "YouTube rate limit exceeded"; with an access-forbidden
\* marker ("403", "Forbidden") it has thrown "Access forbidden - ...".
C19_MarkersAreTerminal ==
    \A i \in 1..Len(inv.runs) :
        LET run == inv.runs[i]
        IN ~exitsWithJson(run) =>
            /\ (includes(run.stderr, <<"429">>) \/ includes(run.stderr, <<"Too", "Many", "Requests">>)) =>
                    i = Len(inv.runs) /\ inv.pc = "threw" /\ inv.out = RateLimited
            /\ (includes(run.stderr, <<"403">>) \/ includes(run.stderr, <<"Forbidden">>)) =>
                    i = Len(inv.runs) /\ inv.pc = "threw" /\ inv.out = Forbidden

\* C20 as stated: when the first run has "429" in its stderr (and did not
\* itself succeed), the invocation goes on to the second strategy, and when
\* the second run exits with valid JSON the invocation has returned the
\* object parsed from it.
C20_SecondStrategyAfter429 ==
    LET n == Len(inv.runs)
    IN (n >= 1 /\ includes(inv.runs[1].stderr, <<"429">>) /\ ~exitsWithJson(inv.runs[1])) =>
        /\ n = 1 => inv.pc = "running"
        /\ (n >= 2 /\ exitsWithJson(inv.runs[2])) =>
                inv.pc = "returned" /\ inv.out = parsedFrom(inv.runs[2])

\* C20, amended: that holds when the first run exits with a non-zero code or
\* with output on stdout that does not parse; when the first run exits with
\* code 0 and nothing on stdout, the invocation has thrown "YouTube rate
\* limit exceeded" and the second strategy is never run.
C20_SecondStrategyAfterUnclassified429 ==
    LET n == Len(inv.runs)
    IN (n >= 1 /\ includes(inv.runs[1].stderr, <<"429">>) /\ ~exitsWithJson(inv.runs[1])) =>
        IF inv.runs[1].code = 0 /\ inv.runs[1].stdout = <<>>
        THEN n = 1 /\ inv.pc = "threw" /\ inv.out = RateLimited
        ELSE /\ n = 1 => inv.pc = "running"
             /\ (n >= 2 /\ exitsWithJson(inv.runs[2])) =>
                    inv.pc = "returned" /\ inv.out = parsedFrom(inv.runs[2])

\* the first run exited 1 with "429" on stderr and the second one's JSON
\* was returned
C20_Witness ==
    /\ inv.pc = "returned"
    /\ Len(inv.runs) = 2
    /\ inv.runs[1].code = 1
    /\ includes(inv.runs[1].stderr, <<"429">>)
    /\ inv.out = parsedFrom(inv.runs[2])

----------------------------------------------------------------------------
\* Claims about the proxy pool, continued

\* C21: in every reachable state getStats returns the same value in two
\* deployments whose endpoints differ in username and password only and that
\* went through the same operations.
C21_StatsIndependentOfCredentials == getStatsValue(1) = getStatsValue(2)

\* the two deployments have different credentials, and an endpoint that has
\* them was handed out and then deactivated by failure reports
C21_Witness ==
    /\ creds.env[1].password # creds.env[2].password
    /\ creds.env[1].username # creds.env[2].username
    /\ \E i \in 1..Len(proxies) :
          /\ proxies[i] \in creds.ids
          /\ ~obj[proxies[i]].isActive
          /\ obj[proxies[i]].lastUsed > 0
    /\ getStatsValue(1).failed = 1

----------------------------------------------------------------------------
\* Claims about getVideoFormats (checked under SpecFormats)

\* the heights of the eligible formats of the extraction result
eligibleHeights == {fmt.info[i].height : i \in {j \in 1..Len(fmt.info) : eligible(fmt.info[j])}}

\* C22: what getVideoFormats returns has at most 3 entries, in strictly
\* descending order of height, with pairwise distinct quality labels; every
\* entry is made of an eligible format of the extraction result (mp4, video
\* and audio, a height) and carries its height as label; and the heights
\* returned are the highest distinct eligible heights (all of them when
\* there are fewer than 3).
C22_TopThreeFormats ==
    fmt.pc = "returned" =>
        LET out == fmt.out
            src(k) == fmt.info[out[k].format_id]
        IN /\ Len(out) <= 3
           /\ \A k \in 1..Len(out) :
                /\ out[k].format_id \in 1..Len(fmt.info)
                /\ eligible(src(k))
                /\ out[k].quality = toString(src(k).height) \o <<"p">>
                /\ out[k].format = "mp4"
           /\ \A j, k \in 1..Len(out) :
                j < k => /\ src(j).height > src(k).height
                         /\ out[j].quality # out[k].quality
           /\ {src(k).height : k \in 1..Len(out)} =
                {h \in eligibleHeights : Cardinality({g \in eligibleHeights : g > h}) < 3}

\* four eligible formats of four heights, the lowest one first: the three
\* highest are returned
C22_Witness ==
    /\ fmt.pc = "returned"
    /\ Len(fmt.out) = 3
    /\ Cardinality(eligibleHeights) = 4
    /\ \A i \in 2..Len(fmt.info) : fmt.info[1].height < fmt.info[i].height
    /\ \A k \in 1..3 : fmt.out[k].format_id # 1

----------------------------------------------------------------------------
\* Claims about the errors of an extraction in the request queue (SpecQueue)

\* C23: an action added with retries whose executions so far, maxRetries at
\* most, all failed with 'yt-dlp timeout' or 'YouTube rate limit exceeded':
\* the retry predicate holds of its last error, a backoff was scheduled
\* after each failure, and its promise is still pending (it runs again).
C23_TimeoutAndRateLimitRetried ==
    \A i \in 1..Len(calls) :
        LET c == calls[i]
        IN ( /\ c.maxRetries > 0
             /\ c.outs # <<>>
             /\ Len(c.outs) <= c.maxRetries
             /\ \A k \in 1..Len(c.outs) : c.outs[k] \in {TimedOut, RateLimited} )
           => /\ shouldRetry(c.outs[Len(c.outs)])
              /\ Len(c.waits) = Len(c.outs)
              /\ c.st = "pending"

\* C24 as stated: an action whose first execution failed with 'Access
\* forbidden - ...', 'Video unavailable' or 'Video is private' fails the
\* retry predicate, was executed exactly once with no backoff, and is
\* rejected with that error.
C24_PermanentErrorsNotRetried ==
    \A i \in 1..Len(calls) :
        LET c == calls[i]
        IN (c.outs # <<>> /\ c.outs[1] \in {Forbidden, Unavailable, Private})
           => /\ ~shouldRetry(c.outs[1])
              /\ c.execs = 1
              /\ c.outs = <<c.outs[1]>>
              /\ c.waits = <<>>
              /\ c.st = "rejected"
              /\ c.err = c.outs[1]

\* C24, amended: that holds of 'Video unavailable' and 'Video is private';
\* of 'Access forbidden - ...' the retry predicate holds.
C24_UnavailableAndPrivateNotRetried ==
    \A i \in 1..Len(calls) :
        LET c == calls[i]
        IN /\ (c.outs # <<>> /\ c.outs[1] \in {Unavailable, Private})
              => /\ ~shouldRetry(c.outs[1])
                 /\ c.execs = 1
                 /\ c.outs = <<c.outs[1]>>
                 /\ c.waits = <<>>
                 /\ c.st = "rejected"
                 /\ c.err = c.outs[1]
           /\ (c.outs # <<>> /\ c.outs[1] = Forbidden) => shouldRetry(c.outs[1])

\* an action added with retries failed with 'Video is private' and another
\* with 'Access forbidden - ...'
C24_Witness ==
    \E i, j \in 1..Len(calls) :
        /\ calls[i].maxRetries = maxRetries /\ calls[i].outs = <<Private>>
        /\ calls[i].st = "rejected"
        /\ calls[j].maxRetries = maxRetries /\ calls[j].outs = <<Forbidden>>

----------------------------------------------------------------------------
\* Claims about failure counts and reactivation timers

\* C25: every endpoint of the pool with failureCount >= maxFailures is
\* inactive and has a reactivation timer pending.
C25_FailedEndpointInactiveWithTimer ==
    \A i \in 1..Len(proxies) :
        obj[proxies[i]].failureCount >= maxFailures =>
            /\ ~obj[proxies[i]].isActive
            /\ \E k \in 1..Len(timers) : timers[k].obj = proxies[i]

\* an endpoint is deactivated by its third failure report, made after the
\* clock advanced, and the timer of that report is pending
C25_Witness ==
    /\ now > failureCooldown
    /\ \E i \in 1..Len(proxies) :
          /\ obj[proxies[i]].failureCount = maxFailures
          /\ ~obj[proxies[i]].isActive
          /\ \E k \in 1..Len(timers) :
                timers[k].obj = proxies[i] /\ timers[k].due = now + failureCooldown

\* C26: every endpoint has 0 <= failureCount <= maxFailures.
C26_FailureCountBounded ==
    \A p \in 1..nObjs : obj[p].failureCount >= 0 /\ obj[p].failureCount <= maxFailures

\* C27: a step that removes endpoints from the pool leaves it empty with the
\* cursor at 0; and when the timer of an endpoint that is no longer in the
\* pool fires, the pool, the cursor and every field of every endpoint of the
\* pool stay as they were.
C27_ClearedPoolUntouchedByTimers ==
    [][ /\ Len(proxies') < Len(proxies) => (proxies' = <<>> /\ currentIndex' = 0)
        /\ (timers # <<>> /\ timers' = Tail(timers) /\ ~inPool(Head(timers).obj)) =>
              /\ proxies' = proxies
              /\ currentIndex' = currentIndex
              /\ \A i \in 1..Len(proxies) : obj'[proxies[i]] = obj[proxies[i]]
      ]_vars

\* the pool was cleared while the timer of its endpoint was pending, an
\* endpoint with the same host:port was added and has failures counted, and
\* the timer is due
C27_Witness ==
    /\ timers # <<>>
    /\ Head(timers).due <= now
    /\ ~inPool(Head(timers).obj)
    /\ Len(proxies) = 1
    /\ hostOf[proxies[1]] = hostOf[Head(timers).obj]
    /\ obj[proxies[1]].failureCount = 2

----------------------------------------------------------------------------
\* Claims about the refresh service, continued

\* sq is an initial part of sq2
isPrefix(sq, sq2) == Len(sq) <= Len(sq2) /\ SubSeq(sq2, 1, Len(sq)) = sq

\* C28: a refresh run that starts (and goes on to fetch) with more than
\* maxProxies endpoints in the pool leaves in it the host:port pairs of the
\* endpoints that were active, in their order, all of them active; and no
\* other step of the refresh service takes an endpoint out of the pool, so a
\* run that starts with at most maxProxies endpoints removes none.
C28_PurgeKeepsActiveEndpoints ==
    [][ LET st == getStats(proxies, obj)
            act == getAvailableProxies(proxies, obj)
            activeHosts == [i \in 1..Len(act) |-> hostOf[act[i]]]
        IN /\ (Len(runs') > Len(runs) /\ st.total > maxProxies) =>
                /\ poolHosts(proxies', hostOf') = activeHosts
                /\ \A i \in 1..Len(proxies') : obj'[proxies'[i]].isActive
           /\ ~isPrefix(poolHosts(proxies, hostOf), poolHosts(proxies', hostOf')) =>
                (Len(runs') > Len(runs) /\ st.total > maxProxies)
      ]_vars

\* a run started on a pool of maxProxies + 1 endpoints, the first two of
\* them inactive, and is fetching: the other endpoints are the pool
C28_Witness ==
    /\ Len(runs) = 1
    /\ nObjs = (maxProxies + 1) + (maxProxies - 1)
    /\ poolHosts(proxies, hostOf) = SubSeq(BulkHosts, 3, maxProxies + 1)
    /\ \A i \in 1..Len(proxies) : proxies[i] > maxProxies + 1

\* C29: a refresh run starts fetching only when, in the statistics of that
\* moment, active < minProxies or failed > 0, and then asks for
\* max(minProxies - active, failed) endpoints; when it ends it has appended
\* at most that many to the pool; and nothing else of the refresh service
\* adds endpoints, so a run with active >= minProxies and failed = 0 adds none.
C29_RefreshInsertsAtMostNeeded ==
    [][ LET st == getStats(proxies, obj)
            needed == IF minProxies - st.active > st.failed
                      THEN minProxies - st.active ELSE st.failed
        IN /\ Len(runs') > Len(runs) =>
                /\ st.active < minProxies \/ st.failed > 0
                /\ runs'[Len(runs')].count = needed
           /\ Len(runs') < Len(runs) =>
                /\ isPrefix(proxies, proxies')
                /\ Len(proxies') - Len(proxies) <= runs[1].count
           /\ (nObjs > 0 /\ Len(proxies') > Len(proxies)) => Len(runs') < Len(runs)
           /\ (lastRefresh' = "healthy" /\ lastRefresh # "healthy") =>
                (st.active >= minProxies /\ st.failed = 0 /\ proxies' = proxies)
      ]_vars

\* a run that started with maxProxies + 1 endpoints, one of them inactive,
\* has ended and added one endpoint to the maxProxies active ones
C29_Witness ==
    /\ runs = <<>>
    /\ lastRefresh = "completed"
    /\ Len(proxies) = maxProxies + 1
    /\ SubSeq(poolHosts(proxies, hostOf), 1, maxProxies) = SubSeq(BulkHosts, 2, maxProxies + 1)
    /\ hostOf[proxies[maxProxies + 1]] \in Hosts

\* C30: the in-progress flag is set exactly while a run is fetching; whatever
\* a source ends in, the run goes on to its next source with the candidates it
\* has, and after the last source it ends: the flag is cleared and the
\* candidates of the earlier sources that are not in the pool are added, up to
\* the number asked for; and a call is skipped only while a run is fetching.
C30_SourceFailuresAreNotFatal ==
    [][ /\ isRefreshing = (runs # <<>>)
        /\ isRefreshing' = (runs' # <<>>)
        /\ (lastRefresh' = "skipped" /\ lastRefresh # "skipped") => runs # <<>>
        /\ lastRefresh' # "failed"
        /\ (runs # <<>> /\ runs' # runs) =>
              LET r == runs[1]
              IN IF r.src < NSources
                 THEN /\ Len(runs') = 1
                      /\ runs'[1].src = r.src + 1
                      /\ runs'[1].count = r.count
                      /\ isPrefix(r.all, runs'[1].all)
                      /\ UNCHANGED <<proxies, obj, hostOf>>
                 ELSE LET had == poolHosts(proxies, hostOf)
                          new == SelectSeq(r.all,
                                           LAMBDA h : \A i \in 1..Len(had) : had[i] # h)
                          n == IF r.count < Len(new) THEN r.count ELSE Len(new)
                      IN /\ runs' = <<>>
                         /\ isPrefix(had \o SubSeq(new, 1, n), poolHosts(proxies', hostOf'))
      ]_vars

\* a run in which sources failed has ended, and a candidate of a source that
\* answered is in the pool
C30_Witness ==
    /\ runs = <<>>
    /\ ~isRefreshing
    /\ lastRefresh = "completed, sources failed"
    /\ \E i \in 1..Len(proxies) : hostOf[proxies[i]] \in Hosts

\* C31: only successful extraction results are cached. A step in which the
\* extraction of a getCachedVideoInfo call ends in an error rejects the call
\* with that error and leaves the whole cache as it was: no entry is made for
\* the url, and an entry it has, stale or not, keeps its timestamp.
C31_FailedExtractionLeavesCache ==
    [][\A i \in 1..Len(calls) :
          LET c == calls[i]
              d == calls'[i]
          IN (c.kind # "add" /\ Len(d.outs) > Len(c.outs) /\ d.outs[Len(d.outs)] # Ok) =>
                /\ cache' = cache
                /\ d.st = "rejected"
                /\ d.err = d.outs[Len(d.outs)]
      ]_vars

\* an extraction succeeded and was cached, the entry went stale, a second call
\* for the url missed and its extraction failed: the stale entry is as it was
C31_Witness ==
    \E i, j \in 1..Len(calls) :
        /\ i < j
        /\ calls[i].kind # "add" /\ calls[j].kind # "add"
        /\ calls[i].url = calls[j].url
        /\ calls[i].st = "resolved"
        /\ calls[j].st = "rejected" /\ calls[j].execs = 1
        /\ cache[calls[i].url].has
        /\ cache[calls[i].url].timestamp = 1
        /\ now - cache[calls[i].url].timestamp >= CACHE_TTL

\* C32: two getCachedVideoInfo calls for one url that overlap cause one
\* extraction: no extraction runs for a url whose cache entry is fresh, that
\* is, a call that missed while an earlier call was in flight is served by
\* the entry the earlier call made.
C32_OverlappingCallsExtractOnce ==
    \A w \in workers :
        (w.pc = "running" /\ calls[w.item.id].kind # "add") =>
            ~cacheHit(cache, calls[w.item.id].url, now)

C34_EveryAttemptReported ==
    \A a \in 1..Len(att) :
        (att[a].proxy # NoProxy /\ att[a].proc \in {"closed", "exited"}) =>
            IF att[a].code = 0 THEN att[a].oks >= 1 ELSE att[a].fails >= 1

\* C34, amended: an attempt bound to a proxy that exited with code 0 has
\* caused one reportSuccess; one that timed out or could not be spawned, and
\* a download that exited with another code, has caused a reportFailure; an
\* extraction that closed with another code on its own has caused one
\* reportFailure when its stderr has one of the markers "proxy", "connection",
\* "timeout", "403", "429", and no report at all otherwise.
C34_FailuresReportedWhenProxyRelated ==
    \A a \in 1..Len(att) :
        LET c == att[a]
            marked == \E m \in {"proxy", "connection", "timeout", "403", "429"} :
                         \E i \in 1..Len(c.stderr) : c.stderr[i] = m
        IN c.proxy # NoProxy =>
            /\ (c.timedOut \/ c.errored) => c.fails >= 1
            /\ (c.proc \in {"closed", "exited"} /\ c.code = 0) => c.oks = 1
            /\ (c.kind = "download" /\ c.proc = "exited" /\ c.code # 0) => c.fails >= 1
            /\ (c.kind = "extract" /\ c.proc = "closed" /\ c.code # 0
                    /\ ~c.timedOut /\ ~c.errored) =>
                  /\ c.oks = 0
                  /\ c.fails = IF marked THEN 1 ELSE 0

\* an extraction bound to an endpoint closed with code 1 and "Video
\* unavailable" on stderr and caused no report; a second one bound to the
\* same endpoint closed with code 0 and caused a reportSuccess
C34_Witness ==
    /\ Len(att) = 2
    /\ att[1].kind = "extract" /\ att[1].proxy # NoProxy
    /\ att[1].proc = "closed" /\ att[1].code = 1
    /\ att[1].stderr = <<"ERROR:", "Video", "unavailable">>
    /\ att[1].oks = 0 /\ att[1].fails = 0
    /\ att[2].kind = "extract" /\ att[2].proxy = att[1].proxy
    /\ att[2].proc = "closed" /\ att[2].code = 0 /\ att[2].oks = 1

\* C35: every subprocess spawned, for extraction and for download alike, is
\* bounded by a timeout: while the subprocess lives, the timer that will kill
\* it is pending.
C35_EverySubprocessHasTimeout ==
    \A a \in 1..Len(att) : att[a].proc = "live" => att[a].timer

\* C38: one attempt bound to a proxy causes at most one reportFailure for
\* that proxy, whatever events its subprocess produces.
C38_OneFailureReportPerAttempt ==
    \A a \in 1..Len(att) : att[a].fails <= 1

\* C36: every action added to the queue is eventually executed and its
\* promise settled, given that every action terminates: while an item waits
\* in the queue a loop is active, processing is set exactly while a loop is
\* active, a loop is gone only when the queue is empty, and every call that
\* was queued is in the end settled after having been executed.
C36_EveryAddedActionSettles ==
    /\ [](/\ Len(queue) > 0 => workers # {}
          /\ processing = (workers # {})
          /\ \A i \in 1..Len(calls) :
                calls[i].st = "pending" => queued(i) \/ inLoop(i))
    /\ \A i \in 1..MaxCalls :
          (i <= Len(calls) /\ calls[i].st = "pending")
              ~> (i <= Len(calls) /\ settled(calls[i]) /\ calls[i].execs >= 1)

\* an add made after the loop had stopped started a second loop, and both
\* added actions have been executed and settled
C36_Witness ==
    /\ Len(calls) = 2
    /\ \A i \in 1..2 : calls[i].kind = "add" /\ settled(calls[i]) /\ calls[i].execs = 1
    /\ nLoops = 2
    /\ workers = {}
    /\ ~processing
    /\ queue = <<>>

\* C37: a timer never reactivates an endpoint earlier than failureCooldown
\* after the endpoint's most recent deactivation: when a timer that fires
\* makes an inactive endpoint active, no timer scheduled by a later
\* deactivation of that endpoint is still pending and not yet due.
C37_NoReactivationByStaleTimer ==
    [][\A p \in 1..nObjs :
          (/\ timers # <<>>
           /\ timers' = Tail(timers)
           /\ ~obj[p].isActive
           /\ obj'[p].isActive) =>
              ~\E k \in 1..Len(timers') :
                    /\ timers'[k].obj = p
                    /\ timers'[k].deact
                    /\ timers'[k].due > now
      ]_vars

\* C39: the purge of a refresh run does not alter the endpoints it retains:
\* every endpoint that was active when the run started on a pool of more than
\* maxProxies endpoints is in the pool afterwards with the failureCount, the
\* lastUsed value and the credentials it had.
C39_PurgeKeepsRetainedEndpoints ==
    [][ (Len(runs') > Len(runs) /\ getStats(proxies, obj).total > maxProxies) =>
          \A i \in 1..Len(proxies) :
              obj[proxies[i]].isActive =>
                  \E j \in 1..Len(proxies') :
                      /\ hostOf'[proxies'[j]] = hostOf[proxies[i]]
                      /\ obj'[proxies'[j]].failureCount = obj[proxies[i]].failureCount
                      /\ obj'[proxies'[j]].lastUsed = obj[proxies[i]].lastUsed
                      /\ (IF proxies'[j] \in creds'.ids THEN creds'.env[1] ELSE NoCredentials)
                           = (IF proxies[i] \in creds.ids THEN creds.env[1] ELSE NoCredentials)
      ]_vars

====
